---------------------------- MODULE Spec2Model ----------------------------
(***************************************************************************)
(* A model of zap, a modal, keyboard-driven hierarchical task manager:     *)
(*   - the quick-entry directive parser  (src/src/date_parser.rs),         *)
(*   - the task store                    (src/src/todo.rs),                *)
(*   - the modal input handlers          (src/src/ui/window.rs).           *)
(*                                                                         *)
(* Text is a sequence of one-character strings, so that the parsers work   *)
(* on positions exactly as the code does.  A date is a day number (days    *)
(* since 1970-01-01); Option<T> is the empty sequence (None) or a          *)
(* one-element sequence (Some).                                            *)
(***************************************************************************)
EXTENDS Integers, Sequences, FiniteSets, TLC

VARIABLES
    today,        \* Local::now().date_naive(), a day number (for the session)
    input,        \* parser harness: the text the parsers are applied to
    cur,          \* parser harness: the remaining text so far
    prio,         \* parser harness: Option<Priority> returned by parse_priority
    date,         \* parser harness: Option<Option<NaiveDate>> returned by parse_date
    steps,        \* parser harness: the parsers applied so far, in order
    todos,        \* TodoList (todos, cluster_name, folded_ids) of the tab
    disk,         \* the data directory: cluster name -> stored blob
    input_mode,   \* InputMode
    flat_todos,   \* the tab's cached Vec<FlatTodo>
    selected,     \* Option<row index>: list_box.selected_row()
    inline_entry_row,  \* Option<the inline entry row in the list box and what its activate closure captured>
    next_id,      \* the ids Uuid::new_v4 has handed out so far
    ret,          \* the TodoList method called last and what it returned
    tabs,         \* the TodoList of each tab of the notebook
    current_page, \* notebook.current_page()
    pending_key,  \* Option<String>: the buffered first key of a sequence
    key_event,    \* the key pressed last and the Action the handler executed for
                  \* it, or the line activated last in the bottom entry
    command_entry,     \* the bottom entry: its text and whether it is sensitive
    notification, \* the notification label: its text and whether it is visible
    display_settings,  \* DisplaySettings
    view_type,    \* ViewType of the tab
    calendar_state     \* Option<CalendarState> of the tab

vars == <<today, input, cur, prio, date, steps, todos, disk, input_mode,
          flat_todos, selected, inline_entry_row, next_id, ret, tabs,
          current_page, pending_key, key_event, command_entry, notification,
          display_settings, view_type, calendar_state>>

parserVars == <<input, cur, prio, date, steps>>
uiVars == <<todos, disk, input_mode, flat_todos, selected, inline_entry_row, next_id>>
storeVars == <<ret>>
tabVars == <<tabs, current_page>>
keyVars == <<pending_key, key_event>>
entryVars == <<command_entry, notification, display_settings, view_type, calendar_state>>
windowVars == <<keyVars, entryVars>>

-----------------------------------------------------------------------------
(* Bounds of the model.                                                    *)

MaxChunks == 3      \* parser harness: fragments per input text
TodaySpan == 13     \* parser harness: today ranges over TodaySpan + 1 days
MaxTasks == 3       \* tasks created in a session
MaxPathLen == 3     \* store harness: indexes per path handed to a method
UsizeBits == 4      \* the width of usize, scaled down
MaxTabs == 2        \* pages of the notebook

-----------------------------------------------------------------------------
(* Characters and strings.                                                 *)

Min(S) == CHOOSE x \in S : \A y \in S : x <= y

Upper == <<"A","B","C","D","E","F","G","H","I","J","K","L","M",
           "N","O","P","Q","R","S","T","U","V","W","X","Y","Z">>
Lower == <<"a","b","c","d","e","f","g","h","i","j","k","l","m",
           "n","o","p","q","r","s","t","u","v","w","x","y","z">>
Digits == <<"0","1","2","3","4","5","6","7","8","9">>

\* char::to_lowercase on the ASCII letters
char_to_lowercase(c) ==
    IF \E i \in 1..26 : Upper[i] = c
    THEN Lower[CHOOSE i \in 1..26 : Upper[i] = c]
    ELSE c

\* str::to_lowercase
RECURSIVE to_lowercase(_)
to_lowercase(s) ==
    IF s = <<>> THEN <<>>
    ELSE <<char_to_lowercase(Head(s))>> \o to_lowercase(Tail(s))

\* char::is_whitespace
is_whitespace(c) == c \in {" ", "\t"}

\* does pat occur in s at the 1-based position i
starts_at(s, pat, i) ==
    /\ i + Len(pat) - 1 <= Len(s)
    /\ SubSeq(s, i, i + Len(pat) - 1) = pat

\* str::find: Option<0-based offset of the leftmost occurrence>
find(s, pat) ==
    LET hits == {i \in 1..(Len(s) + 1) : starts_at(s, pat, i)}
    IN  IF hits = {} THEN <<>> ELSE <<Min(hits) - 1>>

\* str::trim_start / trim_end / trim
RECURSIVE trim_start(_)
trim_start(s) ==
    IF s # <<>> /\ is_whitespace(Head(s)) THEN trim_start(Tail(s)) ELSE s

RECURSIVE trim_end(_)
trim_end(s) ==
    IF s # <<>> /\ is_whitespace(s[Len(s)])
    THEN trim_end(SubSeq(s, 1, Len(s) - 1))
    ELSE s

trim(s) == trim_end(trim_start(s))

\* the length of the leading run of non-whitespace characters
RECURSIVE word_len(_)
word_len(s) ==
    IF s = <<>> \/ is_whitespace(Head(s)) THEN 0 ELSE 1 + word_len(Tail(s))

\* str::split_whitespace().collect::<Vec<_>>()
RECURSIVE split_whitespace(_)
split_whitespace(s) ==
    LET t == trim_start(s)
        n == word_len(t)
    IN  IF t = <<>> THEN <<>>
        ELSE <<SubSeq(t, 1, n)>> \o split_whitespace(SubSeq(t, n + 1, Len(t)))

\* [&str]::join(" ")
RECURSIVE join(_)
join(words) ==
    IF words = <<>> THEN <<>>
    ELSE IF Len(words) = 1 THEN words[1]
    ELSE words[1] \o <<" ">> \o join(Tail(words))

\* str::strip_prefix / strip_suffix: Option<rest>
strip_prefix(s, pat) ==
    IF starts_at(s, pat, 1) THEN <<SubSeq(s, Len(pat) + 1, Len(s))>> ELSE <<>>

strip_suffix(s, pat) ==
    IF Len(pat) <= Len(s) /\ SubSeq(s, Len(s) - Len(pat) + 1, Len(s)) = pat
    THEN <<SubSeq(s, 1, Len(s) - Len(pat))>>
    ELSE <<>>

\* str::split(c).collect::<Vec<_>>()
RECURSIVE split(_, _)
split(s, c) ==
    LET hits == {i \in 1..Len(s) : s[i] = c}
    IN  IF hits = {} THEN <<s>>
        ELSE <<SubSeq(s, 1, Min(hits) - 1)>>
                 \o split(SubSeq(s, Min(hits) + 1, Len(s)), c)

is_digit(c) == \E i \in 1..10 : Digits[i] = c
digit_value(c) == (CHOOSE i \in 1..10 : Digits[i] = c) - 1

RECURSIVE digits_value(_, _)
digits_value(s, acc) ==
    IF s = <<>> THEN acc ELSE digits_value(Tail(s), 10 * acc + digit_value(Head(s)))

\* (the inputs of the model hold at most nine digits, so every digit string
\* is within the range of the integer type it is parsed to)
\* str::parse::<u32>().ok(): an optional '+', then digits only
parse_u32(s) ==
    LET ds == IF s # <<>> /\ Head(s) = "+" THEN Tail(s) ELSE s
    IN  IF ds # <<>> /\ \A i \in 1..Len(ds) : is_digit(ds[i])
        THEN <<digits_value(ds, 0)>>
        ELSE <<>>

\* str::parse::<i32>().ok() and str::parse::<i64>().ok(): an optional sign, then digits
parse_signed(s) ==
    LET neg == s # <<>> /\ Head(s) = "-"
        ds == IF s # <<>> /\ Head(s) \in {"+", "-"} THEN Tail(s) ELSE s
    IN  IF ds # <<>> /\ \A i \in 1..Len(ds) : is_digit(ds[i])
        THEN <<IF neg THEN 0 - digits_value(ds, 0) ELSE digits_value(ds, 0)>>
        ELSE <<>>

-----------------------------------------------------------------------------
(* Calendar: chrono's NaiveDate as a day number, 0 = 1970-01-01.           *)

is_leap_year(y) == (y % 4 = 0 /\ y % 100 # 0) \/ y % 400 = 0

days_in_month(y, m) ==
    IF m = 2 THEN (IF is_leap_year(y) THEN 29 ELSE 28)
    ELSE IF m \in {4, 6, 9, 11} THEN 30
    ELSE 31

\* the day number of the calendar date y-m-d (proleptic Gregorian)
days_from_civil(y, m, d) ==
    LET yy  == IF m <= 2 THEN y - 1 ELSE y
        era == yy \div 400
        yoe == yy - era * 400
        mp  == IF m > 2 THEN m - 3 ELSE m + 9
        doy == (153 * mp + 2) \div 5 + d - 1
        doe == yoe * 365 + yoe \div 4 - yoe \div 100 + doy
    IN  era * 146097 + doe - 719468

\* the calendar date of a day number: Datelike::year / month / day
civil_from_days(z) ==
    LET zz  == z + 719468
        era == zz \div 146097
        doe == zz - era * 146097
        yoe == (doe - doe \div 1460 + doe \div 36524 - doe \div 146096) \div 365
        doy == doe - (365 * yoe + yoe \div 4 - yoe \div 100)
        mp  == (5 * doy + 2) \div 153
        d   == doy - (153 * mp + 2) \div 5 + 1
        m   == IF mp < 10 THEN mp + 3 ELSE mp - 9
        y   == yoe + era * 400
    IN  [year |-> IF m <= 2 THEN y + 1 ELSE y, month |-> m, day |-> d]

year_of(d) == civil_from_days(d).year

\* NaiveDate::from_ymd_opt (chrono's years are -262143 ..= 262142)
from_ymd_opt(y, m, d) ==
    IF /\ y >= -262143 /\ y <= 262142
       /\ m >= 1 /\ m <= 12
       /\ d >= 1 /\ d <= days_in_month(y, m)
    THEN <<days_from_civil(y, m, d)>>
    ELSE <<>>

\* Datelike::weekday().num_days_from_monday(): 1970-01-01 was a Thursday
num_days_from_monday(d) == (d + 3) % 7

\* Weekday as its num_days_from_monday()
Mon == 0
Tue == 1
Wed == 2
Thu == 3
Fri == 4
Sat == 5
Sun == 6

-----------------------------------------------------------------------------
(* The directive parser (src/src/date_parser.rs).                          *)

\* Priority
PriorityLevels == {"None", "Low", "Medium", "High", "Max"}

\* the marker table of parse_priority, in the order the loop tries it
patterns == <<
    <<<<"[","p","r","i","o","r","i","t","y",":","m","a","x","]">>, "Max">>,
    <<<<"[","p","r","i","o","r","i","t","y",":","h","i","g","h","]">>, "High">>,
    <<<<"[","p","r","i","o","r","i","t","y",":","m","e","d","i","u","m","]">>, "Medium">>,
    <<<<"[","p","r","i","o","r","i","t","y",":","l","o","w","]">>, "Low">>,
    <<<<"[","p",":","m","a","x","]">>, "Max">>,
    <<<<"[","p",":","h","i","g","h","]">>, "High">>,
    <<<<"[","p",":","m","e","d","i","u","m","]">>, "Medium">>,
    <<<<"[","p",":","l","o","w","]">>, "Low">> >>

\* the text with the len characters from the 0-based offset pos cut out, and
\* what is left split on whitespace and joined with single spaces
excise(text, pos, len) ==
    LET before == SubSeq(text, 1, pos)
        after  == SubSeq(text, pos + len + 1, Len(text))
    IN  join(split_whitespace(before \o after))

\* parse_priority(input) -> (remaining text, priority)
parse_priority(inp) ==
    LET text  == inp
        lower == to_lowercase(text)
        found == {k \in 1..Len(patterns) : find(lower, patterns[k][1]) # <<>>}
    IN  IF found = {} THEN <<text, "None">>
        ELSE LET k      == Min(found)
                 marker == patterns[k][1]
                 pos    == find(lower, marker)[1]
             IN  <<excise(text, pos, Len(marker)), patterns[k][2]>>

\* parse_weekday
parse_weekday(s) ==
    IF s \in {<<"m","o","n">>, <<"m","o","n","d","a","y">>} THEN <<Mon>>
    ELSE IF s \in {<<"t","u","e">>, <<"t","u","e","s">>, <<"t","u","e","s","d","a","y">>} THEN <<Tue>>
    ELSE IF s \in {<<"w","e","d">>, <<"w","e","d","n","e","s","d","a","y">>} THEN <<Wed>>
    ELSE IF s \in {<<"t","h","u">>, <<"t","h","u","r","s">>, <<"t","h","u","r","s","d","a","y">>} THEN <<Thu>>
    ELSE IF s \in {<<"f","r","i">>, <<"f","r","i","d","a","y">>} THEN <<Fri>>
    ELSE IF s \in {<<"s","a","t">>, <<"s","a","t","u","r","d","a","y">>} THEN <<Sat>>
    ELSE IF s \in {<<"s","u","n">>, <<"s","u","n","d","a","y">>} THEN <<Sun>>
    ELSE <<>>

\* next_weekday(from, target, skip_this_week)
\* next_weekday without its skip_this_week
next_weekday_within_a_week(from, target, skip_this_week) ==
    LET days_ahead == target - num_days_from_monday(from)
    IN  IF days_ahead <= 0 THEN from + (days_ahead + 7) ELSE from + days_ahead

\* next_weekday taking today for the weekday of today
next_weekday_or_today(from, target, skip_this_week) ==
    LET days_ahead == target - num_days_from_monday(from)
    IN  IF days_ahead < 0 \/ skip_this_week THEN from + (days_ahead + 7)
        ELSE from + days_ahead

next_weekday(from, target, skip_this_week) ==
    LET current    == num_days_from_monday(from)
        target_num == target
        days_ahead == target_num - current
    IN  IF days_ahead <= 0 \/ skip_this_week
        THEN from + (days_ahead + 7)
        ELSE from + days_ahead

\* the month names of parse_month_day
month_number(w) ==
    IF w \in {<<"j","a","n">>, <<"j","a","n","u","a","r","y">>} THEN <<1>>
    ELSE IF w \in {<<"f","e","b">>, <<"f","e","b","r","u","a","r","y">>} THEN <<2>>
    ELSE IF w \in {<<"m","a","r">>, <<"m","a","r","c","h">>} THEN <<3>>
    ELSE IF w \in {<<"a","p","r">>, <<"a","p","r","i","l">>} THEN <<4>>
    ELSE IF w = <<"m","a","y">> THEN <<5>>
    ELSE IF w \in {<<"j","u","n">>, <<"j","u","n","e">>} THEN <<6>>
    ELSE IF w \in {<<"j","u","l">>, <<"j","u","l","y">>} THEN <<7>>
    ELSE IF w \in {<<"a","u","g">>, <<"a","u","g","u","s","t">>} THEN <<8>>
    ELSE IF w \in {<<"s","e","p">>, <<"s","e","p","t">>, <<"s","e","p","t","e","m","b","e","r">>} THEN <<9>>
    ELSE IF w \in {<<"o","c","t">>, <<"o","c","t","o","b","e","r">>} THEN <<10>>
    ELSE IF w \in {<<"n","o","v">>, <<"n","o","v","e","m","b","e","r">>} THEN <<11>>
    ELSE IF w \in {<<"d","e","c">>, <<"d","e","c","e","m","b","e","r">>} THEN <<12>>
    ELSE <<>>

\* "use current year, but if the date has passed, use next year"
this_or_next_year(month, day, now) ==
    LET year == year_of(now)
        d0   == from_ymd_opt(year, month, day)
    IN  IF d0 # <<>>
        THEN from_ymd_opt(IF d0[1] < now THEN year + 1 ELSE year, month, day)
        ELSE <<>>

\* parse_month_day(s, today)
parse_month_day(s, now) ==
    LET parts == split_whitespace(s)
    IN  IF Len(parts) # 2 THEN <<>>
        ELSE LET month == month_number(parts[1])
                 day   == parse_u32(parts[2])
             IN  IF month = <<>> \/ day = <<>> THEN <<>>
                 ELSE this_or_next_year(month[1], day[1], now)

\* parse_relative_days(s) -> Option<i64>
parse_relative_days(s) ==
    IF strip_prefix(s, <<"+">>) # <<>> THEN parse_signed(strip_prefix(s, <<"+">>)[1])
    ELSE IF strip_suffix(s, <<"d">>) # <<>> THEN parse_signed(strip_suffix(s, <<"d">>)[1])
    ELSE <<>>

\* parse_slash_date(s, today)
\* parse_slash_date reading a two-digit year as 19YY
parse_slash_date_last_century(s, now) ==
    LET parts == split(s, "/")
        month == parse_u32(parts[1])
        day   == parse_u32(parts[2])
    IN  IF Len(parts) \notin {2, 3} THEN <<>>
        ELSE IF month = <<>> \/ day = <<>> THEN <<>>
        ELSE IF month[1] < 1 \/ month[1] > 12 \/ day[1] < 1 \/ day[1] > 31 THEN <<>>
        ELSE IF Len(parts) = 2 THEN this_or_next_year(month[1], day[1], now)
        ELSE IF parse_signed(parts[3]) = <<>> THEN <<>>
        ELSE from_ymd_opt(IF parse_signed(parts[3])[1] < 100
                          THEN 1900 + parse_signed(parts[3])[1]
                          ELSE parse_signed(parts[3])[1],
                          month[1], day[1])

parse_slash_date(s, now) ==
    LET parts == split(s, "/")
    IN  IF Len(parts) = 2 THEN
            LET month == parse_u32(parts[1])
                day   == parse_u32(parts[2])
            IN  IF month = <<>> \/ day = <<>> THEN <<>>
                ELSE IF month[1] < 1 \/ month[1] > 12 \/ day[1] < 1 \/ day[1] > 31
                THEN <<>>
                ELSE this_or_next_year(month[1], day[1], now)
        ELSE IF Len(parts) = 3 THEN
            LET month     == parse_u32(parts[1])
                day       == parse_u32(parts[2])
                year_part == parse_signed(parts[3])
            IN  IF month = <<>> \/ day = <<>> \/ year_part = <<>> THEN <<>>
                ELSE IF month[1] < 1 \/ month[1] > 12 \/ day[1] < 1 \/ day[1] > 31
                THEN <<>>
                ELSE from_ymd_opt(IF year_part[1] < 100 THEN 2000 + year_part[1]
                                                        ELSE year_part[1],
                                  month[1], day[1])
        ELSE <<>>

\* try_parse_date(s, today) -> Option<NaiveDate>
try_parse_date(s, now) ==
    IF s \in {<<"t","o","d","a","y">>, <<"t","o","d">>} THEN <<now>>
    ELSE IF s \in {<<"t","o","m","o","r","r","o","w">>, <<"t","o","m">>} THEN <<now + 1>>
    ELSE IF s = <<"y","e","s","t","e","r","d","a","y">> THEN <<now - 1>>
    ELSE LET rest == strip_prefix(s, <<"n","e","x","t"," ">>)
         IN  IF rest # <<>> /\ parse_weekday(rest[1]) # <<>>
             THEN <<next_weekday(now, parse_weekday(rest[1])[1], TRUE)>>
             ELSE IF parse_weekday(s) # <<>>
             THEN <<next_weekday(now, parse_weekday(s)[1], FALSE)>>
             ELSE IF parse_month_day(s, now) # <<>>
             THEN parse_month_day(s, now)
             ELSE IF parse_relative_days(s) # <<>>
             THEN <<now + parse_relative_days(s)[1]>>
             ELSE parse_slash_date(s, now)

\* the dates a NaiveDate can hold, as day numbers: NaiveDate::MIN, NaiveDate::MAX
NaiveDate_MIN == days_from_civil(-262143, 1, 1)
NaiveDate_MAX == days_from_civil(262142, 12, 31)

\* `today + Duration::days(days)` in try_parse_date: Add<Duration> for
\* NaiveDate panics when the sum is no NaiveDate ("`NaiveDate + TimeDelta`
\* overflowed"); try_parse_date gets that far when no branch before the
\* relative days has returned
try_parse_date_panics(s, now) ==
    LET rest == strip_prefix(s, <<"n","e","x","t"," ">>)
    IN  /\ s \notin {<<"t","o","d","a","y">>, <<"t","o","d">>,
                      <<"t","o","m","o","r","r","o","w">>, <<"t","o","m">>,
                      <<"y","e","s","t","e","r","d","a","y">>}
        /\ ~(rest # <<>> /\ parse_weekday(rest[1]) # <<>>)
        /\ parse_weekday(s) = <<>>
        /\ parse_month_day(s, now) = <<>>
        /\ parse_relative_days(s) # <<>>
        /\ \/ now + parse_relative_days(s)[1] < NaiveDate_MIN
           \/ now + parse_relative_days(s)[1] > NaiveDate_MAX

\* \[(date|d): of the regex: where the keyword and its colon end when the
\* bracket opens at position i of the lower-cased text, or 0
date_regex_kw_end(low, i) ==
    IF starts_at(low, <<"[","d","a","t","e",":">>, i) THEN i + 5
    ELSE IF starts_at(low, <<"[","d",":">>, i) THEN i + 2
    ELSE 0

\* ([^\]]+)\] of the regex: the first "]" after the colon at position k, or 0
date_regex_close(s, k) ==
    LET js == {j \in (k + 1)..Len(s) : s[j] = "]"}
    IN  IF js = {} THEN 0 ELSE Min(js)

\* the positions of s at which the regex matches, case-insensitively
date_regex_starts(s) ==
    LET low == to_lowercase(s)
    IN  {i \in 1..Len(s) :
            LET k == date_regex_kw_end(low, i)
            IN  k # 0 /\ date_regex_close(s, k) > k + 1}

\* the match at position i: its byte range and the capture of the body
date_regex_match_at(s, i) ==
    LET k == IF s[i + 2] = ":" THEN i + 2 ELSE i + 5
        j == date_regex_close(s, k)
    IN  [start |-> i - 1, end |-> j, body |-> SubSeq(s, k + 1, j - 1)]

\* the regex taking its last match instead of its first
date_regex_captures_rightmost(s) ==
    LET starts == date_regex_starts(s)
    IN  IF starts = {} THEN <<>>
        ELSE <<date_regex_match_at(s, CHOOSE i \in starts : \A o \in starts : o <= i)>>

\* the leftmost match of the regex (?i)\[(date|d):([^\]]+)\] in s: Option of
\* the match's 0-based start, its end (exclusive) and capture group 2
date_regex_captures(s) ==
    LET starts == date_regex_starts(s)
    IN  IF starts = {} THEN <<>>
        ELSE <<date_regex_match_at(s, Min(starts))>>

\* parse_date(input) -> (remaining text, Option<NaiveDate>)
\* parse_date cutting the bracket out also when its body does not resolve
parse_date_dropping_bracket(inp, now) ==
    LET inp_t == trim(inp)
        caps  == date_regex_captures(inp_t)
    IN  IF caps = <<>> THEN <<inp_t, <<>>>>
        ELSE <<excise(inp_t, caps[1].start, caps[1].end - caps[1].start),
               try_parse_date(to_lowercase(trim(caps[1].body)), now)>>

parse_date(inp, now) ==
    LET inp_t == trim(inp)
        caps  == date_regex_captures(inp_t)
    IN  IF caps = <<>> THEN <<inp_t, <<>>>>
        ELSE LET full_match == caps[1]
                 date_str   == to_lowercase(trim(full_match.body))
                 parsed     == try_parse_date(date_str, now)
             IN  IF parsed # <<>>
                 THEN <<excise(inp_t, full_match.start,
                               full_match.end - full_match.start), parsed>>
                 ELSE <<inp_t, <<>>>>

\* parse_date does not return: try_parse_date panics on the body of the
\* bracket
parse_date_panics(inp, now) ==
    LET caps == date_regex_captures(trim(inp))
    IN  caps # <<>> /\ try_parse_date_panics(to_lowercase(trim(caps[1].body)), now)

-----------------------------------------------------------------------------
(* The task store (src/src/todo.rs).  A Todo is a record                   *)
(*   [id, text, completed, due_date, created_at, subtasks, priority,       *)
(*    is_section];                                                         *)
(* a TodoList is [todos, cluster_name, folded_ids].  Paths hold 0-based    *)
(* indices, as in the code.                                                *)

\* Todo::new that gives every todo the same id
Todo_new_same_id(id, text, due_date, priority) ==
    [id |-> 1, text |-> text, completed |-> FALSE, due_date |-> due_date,
     created_at |-> 1, subtasks |-> <<>>, priority |-> priority,
     is_section |-> FALSE]

\* Todo::new: the id is the next unused one, the creation time the clock of
\* the model, which ticks with every created task
Todo_new(id, text, due_date, priority) ==
    [id |-> id, text |-> text, completed |-> FALSE, due_date |-> due_date,
     created_at |-> id, subtasks |-> <<>>, priority |-> priority,
     is_section |-> FALSE]

\* Todo::new_section
Todo_new_section(id, text) ==
    [id |-> id, text |-> text, completed |-> FALSE, due_date |-> <<>>,
     created_at |-> id, subtasks |-> <<>>, priority |-> "None",
     is_section |-> TRUE]

\* TodoList::default() with the cluster name load() gives it
TodoList_default == [todos |-> <<>>, cluster_name |-> "", folded_ids |-> {}]

\* serde: the blob holds the todos only (cluster_name and folded_ids are skipped)
to_json(self) == [todos |-> self.todos]

\* serde_json::from_str(&s).ok(): a blob without the todos field does not parse
from_json(blob) ==
    IF "todos" \in DOMAIN blob
    THEN <<[todos |-> blob.todos, cluster_name |-> "", folded_ids |-> {}]>>
    ELSE <<>>

\* load that leaves the cluster name of the list it read or made
load_unnamed(dsk, cluster_name) ==
    IF cluster_name \in DOMAIN dsk /\ dsk[cluster_name] # <<>>
    THEN IF from_json(dsk[cluster_name][1]) # <<>>
         THEN from_json(dsk[cluster_name][1])[1]
         ELSE TodoList_default
    ELSE TodoList_default

\* TodoList::load
load(dsk, cluster_name) ==
    LET list == IF cluster_name \in DOMAIN dsk /\ dsk[cluster_name] # <<>>
                THEN IF from_json(dsk[cluster_name][1]) # <<>>
                     THEN from_json(dsk[cluster_name][1])[1]
                     ELSE TodoList_default
                ELSE TodoList_default
    IN  [list EXCEPT !.cluster_name = cluster_name]

\* TodoList::save: the data directory after the write
save(self, dsk) ==
    [c \in DOMAIN dsk \cup {self.cluster_name} |->
        IF c = self.cluster_name THEN <<to_json(self)>> ELSE dsk[c]]

\* TodoList::is_folded
is_folded(self, id) == id \in self.folded_ids

\* toggle_fold that folds and never unfolds
toggle_fold_never_unfolds(self, id) == [self EXCEPT !.folded_ids = @ \cup {id}]

\* TodoList::toggle_fold
toggle_fold(self, id) ==
    IF id \in self.folded_ids
    THEN [self EXCEPT !.folded_ids = @ \ {id}]
    ELSE [self EXCEPT !.folded_ids = @ \cup {id}]

\* TodoList::flatten_recursive; flatten_from walks the siblings from index i on
RECURSIVE flatten_recursive(_, _, _, _)
RECURSIVE flatten_from(_, _, _, _, _)
\* flatten_recursive descending into the subtasks of a folded task as well
flatten_recursive_through_folds(self, todo, depth, path) ==
    <<[todo |-> todo, depth |-> depth, path |-> path,
       has_subtasks |-> todo.subtasks # <<>>,
       is_folded |-> is_folded(self, todo.id)]>>
        \o flatten_from(self, todo.subtasks, depth + 1, path, 0)

flatten_recursive(self, todo, depth, path) ==
    LET folded == is_folded(self, todo.id)
        row == [todo |-> todo, depth |-> depth, path |-> path,
                has_subtasks |-> todo.subtasks # <<>>, is_folded |-> folded]
    IN  <<row>> \o (IF ~folded
                    THEN flatten_from(self, todo.subtasks, depth + 1, path, 0)
                    ELSE <<>>)

flatten_from(self, list, depth, prefix, i) ==
    IF i >= Len(list) THEN <<>>
    ELSE flatten_recursive(self, list[i + 1], depth, Append(prefix, i))
             \o flatten_from(self, list, depth, prefix, i + 1)

\* TodoList::flatten
flatten(self) == flatten_from(self, self.todos, 0, <<>>, 0)

\* TodoList::get_at_path / get_mut_at_path: Option<Todo>
RECURSIVE get_in(_, _)
get_in(list, path) ==
    IF path[1] >= Len(list) THEN <<>>
    ELSE IF Len(path) = 1 THEN <<list[path[1] + 1]>>
    ELSE get_in(list[path[1] + 1].subtasks, Tail(path))

get_at_path(self, path) ==
    IF path = <<>> THEN <<>> ELSE get_in(self.todos, path)

\* the list with the todo at a resolvable path replaced: what writing through
\* the &mut Todo of get_mut_at_path does to the tree
RECURSIVE set_in(_, _, _)
set_in(list, path, todo) ==
    IF Len(path) = 1 THEN [list EXCEPT ![path[1] + 1] = todo]
    ELSE [list EXCEPT ![path[1] + 1].subtasks = set_in(@, Tail(path), todo)]

\* add that leaves the file as it is
add_unsaved(self, dsk, todo) ==
    [self |-> [self EXCEPT !.todos = Append(@, todo)], disk |-> dsk]

\* TodoList::add: the list and the data directory afterwards
add(self, dsk, todo) ==
    LET after == [self EXCEPT !.todos = Append(@, todo)]
    IN  [self |-> after, disk |-> save(after, dsk)]

\* TodoList::add_subtask
add_subtask(self, dsk, path, subtask) ==
    LET parent == get_at_path(self, path)
    IN  IF parent # <<>>
        THEN LET grown == [parent[1] EXCEPT !.subtasks = Append(@, subtask)]
                 after == [self EXCEPT !.todos = set_in(@, path, grown)]
             IN  [self |-> after, disk |-> save(after, dsk)]
        ELSE [self |-> self, disk |-> dsk]

\* TodoList::get_parent_list_mut: Option of the sibling list and the index in
\* it (the index is not checked against the list)
get_parent_list(self, path) ==
    IF path = <<>> THEN <<>>
    ELSE IF Len(path) = 1 THEN <<[list |-> self.todos, idx |-> path[1]]>>
    ELSE LET parent == get_at_path(self, SubSeq(path, 1, Len(path) - 1))
         IN  IF parent = <<>> THEN <<>>
             ELSE <<[list |-> parent[1].subtasks, idx |-> path[Len(path)]]>>

\* the tree after a write through the &mut Vec<Todo> of get_parent_list_mut
set_parent_list(self, path, list) ==
    IF Len(path) = 1 THEN [self EXCEPT !.todos = list]
    ELSE LET parent_path == SubSeq(path, 1, Len(path) - 1)
             parent      == get_at_path(self, parent_path)[1]
         IN  [self EXCEPT !.todos =
                  set_in(@, parent_path, [parent EXCEPT !.subtasks = list])]

\* Vec::truncate(idx): the list before the 0-based index
Vec_truncate(list, idx) == SubSeq(list, 1, idx)

\* Vec::remove(idx): the list without its element at the 0-based index
Vec_remove(list, idx) == SubSeq(list, 1, idx) \o SubSeq(list, idx + 2, Len(list))

\* Vec::swap(a, b), 0-based
Vec_swap(list, a, b) == [list EXCEPT ![a + 1] = list[b + 1], ![b + 1] = list[a + 1]]

\* update_at_path that also marks the task as not completed
update_at_path_reopening(self, dsk, path, text, due_date, priority) ==
    LET todo == get_at_path(self, path)
    IN  IF todo # <<>>
        THEN LET written == [todo[1] EXCEPT !.text = text, !.due_date = due_date,
                                            !.priority = priority,
                                            !.completed = FALSE]
                 after   == [self EXCEPT !.todos = set_in(@, path, written)]
             IN  [self |-> after, disk |-> save(after, dsk)]
        ELSE [self |-> self, disk |-> dsk]

\* TodoList::update_at_path
update_at_path(self, dsk, path, text, due_date, priority) ==
    LET todo == get_at_path(self, path)
    IN  IF todo # <<>>
        THEN LET written == [todo[1] EXCEPT !.text = text, !.due_date = due_date,
                                            !.priority = priority]
                 after   == [self EXCEPT !.todos = set_in(@, path, written)]
             IN  [self |-> after, disk |-> save(after, dsk)]
        ELSE [self |-> self, disk |-> dsk]

\* TodoList::remove_at_path
remove_at_path(self, dsk, path) ==
    LET found == get_parent_list(self, path)
    IN  IF found # <<>> /\ found[1].idx < Len(found[1].list)
        THEN LET after == set_parent_list(self, path,
                                          Vec_remove(found[1].list, found[1].idx))
             IN  [self |-> after, disk |-> save(after, dsk)]
        ELSE [self |-> self, disk |-> dsk]

\* toggle_at_path that flips the task where it stands
toggle_at_path_in_place(self, dsk, path) ==
    LET todo == get_at_path(self, path)
    IN  IF todo = <<>> THEN [self |-> self, disk |-> dsk, ret |-> <<>>]
        ELSE LET toggled == [todo[1] EXCEPT !.completed = ~@]
                 after   == [self EXCEPT !.todos = set_in(@, path, toggled)]
             IN  [self |-> after, disk |-> save(after, dsk), ret |-> <<>>]

\* TodoList::toggle_at_path: ret is the Option<usize> it returns
toggle_at_path(self, dsk, path) ==
    LET todo == get_at_path(self, path)
    IN  IF todo = <<>> THEN [self |-> self, disk |-> dsk, ret |-> <<>>]
        ELSE LET toggled == [todo[1] EXCEPT !.completed = ~@]
                 flipped == [self EXCEPT !.todos = set_in(@, path, toggled)]
                 found   == get_parent_list(flipped, path)
                 moves   == toggled.completed /\ found # <<>>
                 after   == IF moves
                            THEN set_parent_list(flipped, path,
                                     Append(Vec_remove(found[1].list, found[1].idx),
                                            found[1].list[found[1].idx + 1]))
                            ELSE flipped
             IN  [self |-> after, disk |-> save(after, dsk),
                  ret |-> IF moves THEN <<Len(found[1].list) - 1>> ELSE <<>>]

\* move_up that swaps the task with the first of its siblings
move_up_to_front(self, dsk, path) ==
    LET found == get_parent_list(self, path)
    IN  IF found # <<>> /\ found[1].idx > 0 /\ found[1].idx < Len(found[1].list)
        THEN LET after == set_parent_list(self, path,
                              Vec_swap(found[1].list, found[1].idx, 0))
             IN  [self |-> after, disk |-> save(after, dsk), ret |-> TRUE]
        ELSE [self |-> self, disk |-> dsk, ret |-> FALSE]

\* TodoList::move_up: ret is the bool it returns
move_up(self, dsk, path) ==
    LET found == get_parent_list(self, path)
    IN  IF found # <<>> /\ found[1].idx > 0 /\ found[1].idx < Len(found[1].list)
        THEN LET after == set_parent_list(self, path,
                              Vec_swap(found[1].list, found[1].idx, found[1].idx - 1))
             IN  [self |-> after, disk |-> save(after, dsk), ret |-> TRUE]
        ELSE [self |-> self, disk |-> dsk, ret |-> FALSE]

\* the largest usize
usize_MAX == 2^UsizeBits - 1

\* TodoList::move_down. `idx + 1` is an addition of usize: at usize::MAX a
\* build with overflow checks (debug) panics there, a build without them
\* (release) gets 0, and Vec::swap panics on an index that is not in the list
move_down(self, dsk, path, overflow_checks) ==
    LET found   == get_parent_list(self, path)
        stopped == [self |-> self, disk |-> dsk, ret |-> FALSE, panic |-> TRUE]
    IN  IF found = <<>>
        THEN [self |-> self, disk |-> dsk, ret |-> FALSE, panic |-> FALSE]
        ELSE IF found[1].idx = usize_MAX /\ overflow_checks THEN stopped
        ELSE LET list == found[1].list
                 idx  == found[1].idx
                 next == (idx + 1) % (usize_MAX + 1)
             IN  IF next < Len(list)
                 THEN IF idx < Len(list)
                      THEN LET after == set_parent_list(self, path,
                                            Vec_swap(list, idx, next))
                           IN  [self |-> after, disk |-> save(after, dsk),
                                ret |-> TRUE, panic |-> FALSE]
                      ELSE stopped
                 ELSE [self |-> self, disk |-> dsk, ret |-> FALSE, panic |-> FALSE]

\* Priority::sort_order
sort_order(priority) ==
    CASE priority = "Max" -> 0
      [] priority = "High" -> 1
      [] priority = "Medium" -> 2
      [] priority = "Low" -> 3
      [] priority = "None" -> 4

\* std::cmp::Ordering
Less == 0 - 1
Equal == 0
Greater == 1

\* Ord::cmp of two numbers (also of two bools, false < true)
cmp(a, b) == IF a < b THEN Less ELSE IF a > b THEN Greater ELSE Equal

bool_rank(b) == IF b THEN 1 ELSE 0

\* the printable ASCII characters, but for the quote, the backslash and the
\* backtick, in the order of their bytes
Ascii == <<
    " ", "!", "#", "$", "%", "&", "'", "(", ")", "*", "+", ",", "-", ".", "/",
    "0", "1", "2", "3", "4", "5", "6", "7", "8", "9", ":", ";", "<", "=", ">", "?",
    "@", "A", "B", "C", "D", "E", "F", "G", "H", "I", "J", "K", "L", "M", "N", "O",
    "P", "Q", "R", "S", "T", "U", "V", "W", "X", "Y", "Z", "[", "]", "^", "_",
    "a", "b", "c", "d", "e", "f", "g", "h", "i", "j", "k", "l", "m", "n", "o",
    "p", "q", "r", "s", "t", "u", "v", "w", "x", "y", "z", "{", "|", "}", "~" >>

\* the place of a character in that order
char_code(c) == CHOOSE i \in 1..Len(Ascii) : Ascii[i] = c

\* Ord for String: byte-wise lexicographic
RECURSIVE str_cmp(_, _)
str_cmp(a, b) ==
    IF a = <<>> THEN (IF b = <<>> THEN Equal ELSE Less)
    ELSE IF b = <<>> THEN Greater
    ELSE IF Head(a) = Head(b) THEN str_cmp(Tail(a), Tail(b))
    ELSE cmp(char_code(Head(a)), char_code(Head(b)))

\* the closure with the texts compared as they are spelled
sort_cmp_case_sensitive(a, b) ==
    IF a.is_section # b.is_section
    THEN cmp(bool_rank(a.is_section), bool_rank(b.is_section))
    ELSE IF a.completed # b.completed
    THEN cmp(bool_rank(a.completed), bool_rank(b.completed))
    ELSE IF sort_order(a.priority) # sort_order(b.priority)
    THEN cmp(sort_order(a.priority), sort_order(b.priority))
    ELSE IF a.due_date # b.due_date
    THEN IF a.due_date = <<>> THEN Greater
         ELSE IF b.due_date = <<>> THEN Less
         ELSE cmp(a.due_date[1], b.due_date[1])
    ELSE str_cmp(a.text, b.text)

\* the closure without its test of the completed flags
sort_cmp_ignoring_completed(a, b) ==
    IF a.is_section # b.is_section
    THEN cmp(bool_rank(a.is_section), bool_rank(b.is_section))
    ELSE IF sort_order(a.priority) # sort_order(b.priority)
    THEN cmp(sort_order(a.priority), sort_order(b.priority))
    ELSE IF a.due_date # b.due_date
    THEN IF a.due_date = <<>> THEN Greater
         ELSE IF b.due_date = <<>> THEN Less
         ELSE cmp(a.due_date[1], b.due_date[1])
    ELSE str_cmp(to_lowercase(a.text), to_lowercase(b.text))

\* the closure sort_todos hands to sort_by
sort_cmp(a, b) ==
    IF a.is_section # b.is_section
    THEN cmp(bool_rank(a.is_section), bool_rank(b.is_section))
    ELSE IF a.completed # b.completed
    THEN cmp(bool_rank(a.completed), bool_rank(b.completed))
    ELSE IF sort_order(a.priority) # sort_order(b.priority)
    THEN cmp(sort_order(a.priority), sort_order(b.priority))
    ELSE LET date_cmp ==
                 IF a.due_date # <<>> /\ b.due_date # <<>>
                 THEN cmp(a.due_date[1], b.due_date[1])
                 ELSE IF a.due_date # <<>> THEN Less
                 ELSE IF b.due_date # <<>> THEN Greater
                 ELSE Equal
         IN  IF date_cmp # Equal THEN date_cmp
             ELSE str_cmp(to_lowercase(a.text), to_lowercase(b.text))

\* <[Todo]>::sort_by with that closure: a stable sort, here by insertion of
\* each element behind the elements that do not compare Greater than it
sort_insert(sorted, x) ==
    LET after == {i \in 1..Len(sorted) : sort_cmp(sorted[i], x) = Greater}
        at    == IF after = {} THEN Len(sorted) + 1 ELSE Min(after)
    IN  SubSeq(sorted, 1, at - 1) \o <<x>> \o SubSeq(sorted, at, Len(sorted))

RECURSIVE sort_by(_)
sort_by(list) ==
    IF list = <<>> THEN <<>>
    ELSE sort_insert(sort_by(SubSeq(list, 1, Len(list) - 1)), list[Len(list)])

\* TodoList::sort_todos: the subtasks of every todo first, then this level
RECURSIVE sort_todos(_)
sort_todos(list) ==
    sort_by([i \in 1..Len(list) |->
                IF list[i].subtasks # <<>>
                THEN [list[i] EXCEPT !.subtasks = sort_todos(@)]
                ELSE list[i]])

\* TodoList::sort
sort(self, dsk) ==
    LET after == [self EXCEPT !.todos = sort_todos(@)]
    IN  [self |-> after, disk |-> save(after, dsk)]

-----------------------------------------------------------------------------
(* The parser harness: the two parsers applied, in either order, to one    *)
(* input text, as the commit handlers chain them                           *)
(* (src/src/ui/window.rs:728-729).                                         *)

\* u32 / i32 Display
RECURSIVE fmt_nat(_)
fmt_nat(n) ==
    IF n < 10 THEN <<Digits[n + 1]>>
    ELSE fmt_nat(n \div 10) \o <<Digits[(n % 10) + 1]>>

fmt_int(n) == IF n < 0 THEN <<"-">> \o fmt_nat(0 - n) ELSE fmt_nat(n)

\* the fragments input texts are put together from
Fragments == <<
    <<"a">>,
    <<" ">>,
    <<"[","p","r","i","o","r","i","t","y",":","l","o","w","]">>,
    <<"[","p",":","m","a","x","]">>,
    <<"[","P",":","H","i","g","h","]">>,
    <<"[","d",":","t","o","d","]">>,
    <<"[","D","a","t","e",":","+","1","]">>,
    <<"[","d","a","t","e",":","z","z","]">>,
    <<"[","d",":">>,
    <<"t","o","d","]">> >>

RECURSIVE concat(_)
concat(ss) == IF ss = <<>> THEN <<>> ELSE Head(ss) \o concat(Tail(ss))

\* every text of at most MaxChunks fragments
FragmentTexts ==
    UNION {{concat([i \in 1..n |-> Fragments[f[i]]]) :
                f \in [1..n -> 1..Len(Fragments)]} : n \in 0..MaxChunks}

WeekdayNames == {
    <<<<"m","o","n">>, Mon>>, <<<<"m","o","n","d","a","y">>, Mon>>,
    <<<<"t","u","e">>, Tue>>, <<<<"t","u","e","s">>, Tue>>, <<<<"t","u","e","s","d","a","y">>, Tue>>,
    <<<<"w","e","d">>, Wed>>, <<<<"w","e","d","n","e","s","d","a","y">>, Wed>>,
    <<<<"t","h","u">>, Thu>>, <<<<"t","h","u","r","s">>, Thu>>, <<<<"t","h","u","r","s","d","a","y">>, Thu>>,
    <<<<"f","r","i">>, Fri>>, <<<<"f","r","i","d","a","y">>, Fri>>,
    <<<<"s","a","t">>, Sat>>, <<<<"s","a","t","u","r","d","a","y">>, Sat>>,
    <<<<"s","u","n">>, Sun>>, <<<<"s","u","n","d","a","y">>, Sun>> }

NextPrefix == <<"n","e","x","t"," ">>

SlashMonths == {0, 2, 4, 12, 13}
SlashDays == {0, 1, 29, 30, 31, 32}
SlashYears == {-4, 0, 23, 24, 99, 100, 2023, 2024}

slash2(m, d) == fmt_int(m) \o <<"/">> \o fmt_int(d)
slash3(m, d, y) == fmt_int(m) \o <<"/">> \o fmt_int(d) \o <<"/">> \o fmt_int(y)

DateBodies ==
    {wn[1] : wn \in WeekdayNames}
        \cup {NextPrefix \o wn[1] : wn \in WeekdayNames}
        \cup {slash2(m, d) : m \in SlashMonths, d \in SlashDays}
        \cup {slash3(m, d, y) : m \in SlashMonths, d \in SlashDays, y \in SlashYears}

\* a task line carrying one date directive
DateText(body) == <<"x"," ","[","d","a","t","e",":">> \o body \o <<"]">>

DateTexts == {DateText(b) : b \in DateBodies}

\* the days today ranges over: 2024-02-23 (a Friday) and the TodaySpan days
\* after it, across the leap day, and a day late in a year that is no leap year
BaseDay == days_from_civil(2024, 2, 23)
TodaySet == {BaseDay + k : k \in 0..TodaySpan} \cup {days_from_civil(2023, 12, 30)}

\* no TodoList method has returned yet
NoCall == [op |-> "none", value |-> <<>>]

\* no key has been pressed yet
NoKey == [key |-> <<>>, action |-> <<>>]

\* ZapWindow::new and add_tab: nothing buffered, the bottom entry insensitive,
\* the notification hidden and no timeout under way, DisplaySettings::default(),
\* the list view, no calendar yet
ZapWindow_new ==
    /\ pending_key = <<>>
    /\ key_event = NoKey
    /\ command_entry = [text |-> <<>>, sensitive |-> FALSE]
    /\ notification = [text |-> <<>>, visible |-> FALSE, timer |-> FALSE]
    /\ display_settings = [show_start_date |-> FALSE]
    /\ view_type = "List"
    /\ calendar_state = <<>>

\* the state of the handlers while the parser harness runs
UiIdle ==
    /\ todos = [todos |-> <<>>, cluster_name |-> "main", folded_ids |-> {}]
    /\ disk = [c \in {"main"} |-> <<>>]
    /\ input_mode = [kind |-> "Normal", path |-> <<>>]
    /\ flat_todos = <<>>
    /\ selected = <<>>
    /\ inline_entry_row = <<>>
    /\ next_id = 0
    /\ ret = NoCall
    /\ tabs = <<>>
    /\ current_page = 0
    /\ ZapWindow_new

InitParser ==
    /\ \/ today = BaseDay /\ input \in FragmentTexts
       \/ today \in TodaySet /\ input \in DateTexts
    /\ cur = input
    /\ prio = <<>>
    /\ date = <<>>
    /\ steps = <<>>
    /\ UiIdle

\* let (text_after_priority, priority) = parse_priority(&text);
ApplyParsePriority ==
    /\ \A i \in 1..Len(steps) : steps[i] \notin {"P", "panic"}
    /\ cur' = parse_priority(cur)[1]
    /\ prio' = <<parse_priority(cur)[2]>>
    /\ steps' = Append(steps, "P")
    /\ UNCHANGED <<today, input, date>>
    /\ UNCHANGED <<uiVars, storeVars, tabVars, windowVars>>

\* let (task_text, due_date) = parse_date(&text_after_priority);
\* (a panic ends the process: nothing is returned and no parser runs after)
ApplyParseDate ==
    /\ \A i \in 1..Len(steps) : steps[i] \notin {"D", "panic"}
    /\ IF parse_date_panics(cur, today)
       THEN steps' = Append(steps, "panic") /\ UNCHANGED <<cur, date>>
       ELSE /\ cur' = parse_date(cur, today)[1]
            /\ date' = <<parse_date(cur, today)[2]>>
            /\ steps' = Append(steps, "D")
    /\ UNCHANGED <<today, input, prio>>
    /\ UNCHANGED <<uiVars, storeVars, tabVars, windowVars>>

NextParser == ApplyParsePriority \/ ApplyParseDate

ParserSpec == InitParser /\ [][NextParser]_vars

\* the parsers on lines whose date directive is a relative offset: small and
\* large numbers of days of either sign in both spellings, and no number
OffsetBodies ==
    {<<"+","3">>, <<"3","d">>, <<"-","3","d">>, <<"+","-","3">>, <<"+","0">>,
     <<"+","x">>, <<"+">>, <<"d">>,
     <<"+","9","9","9","9","9","9","9","9","9">>,
     <<"9","9","9","9","9","9","9","9","9","d">>,
     <<"-","9","9","9","9","9","9","9","9","9","d">>}

InitOffset ==
    /\ today \in TodaySet
    /\ input \in {DateText(b) : b \in OffsetBodies}
    /\ cur = input
    /\ prio = <<>>
    /\ date = <<>>
    /\ steps = <<>>
    /\ UiIdle

OffsetSpec == InitOffset /\ [][NextParser]_vars

-----------------------------------------------------------------------------
(* The modal input handlers of the window (src/src/ui/window.rs), for one  *)
(* tab in list view.                                                       *)

\* the lines a user commits
SectionSigil == <<"/","s","e","c","t","i","o","n"," ">>
LineBuyMilkDateFirst == <<"B","u","y"," ","m","i","l","k"," ","[","d","a","t","e",":","t","o","m","o","r","r","o","w","]"," ","[","p",":","h","i","g","h","]">>
LineBuyMilkPriorityFirst == <<"B","u","y"," ","m","i","l","k"," ","[","p",":","h","i","g","h","]"," ","[","d","a","t","e",":","t","o","m","o","r","r","o","w","]">>
LinePlain == <<" ","b"," ">>
LineSection == <<"/","s","e","c","t","i","o","n"," ","S">>
LineOnlyDirective == <<"[","p",":","l","o","w","]">>
LineBlank == <<" "," ">>

CommitLines == {LineBuyMilkDateFirst, LineBuyMilkPriorityFirst, LinePlain,
                LineSection, LineOnlyDirective, LineBlank}

\* InputMode. Edit and InsertSubtask hold the path of the selected task, as
\* in the source, and with it `id`, the id of the task of that path when the
\* mode was entered: no handler reads it, the properties do. The inline row
\* of InsertSubtask carries the same `id` next to the path its closure captured
Normal == [kind |-> "Normal", path |-> <<>>]

\* let (text_after_priority, priority) = parse_priority(&text);
\* let (task_text, due_date) = parse_date(&text_after_priority);
parse_chain(text, now) ==
    LET p == parse_priority(text)
        d == parse_date(p[1], now)
    IN  [task_text |-> d[1], due_date |-> d[2], priority |-> p[2]]

\* parse_chain of the lines of the model on the day of the session, worked out once
ParsedCommitLines == [text \in CommitLines |-> parse_chain(text, BaseDay)]

parse_line(text, now) ==
    IF text \in CommitLines /\ now = BaseDay
    THEN ParsedCommitLines[text]
    ELSE parse_chain(text, now)

\* ZapWindow::new: add_tab("main") loads the cluster and refreshes the list
Init ==
    /\ today = BaseDay
    /\ input = <<>>
    /\ cur = <<>>
    /\ prio = <<>>
    /\ date = <<>>
    /\ steps = <<>>
    /\ disk = [c \in {"main"} |-> <<>>]
    /\ todos = load(disk, "main")
    /\ flat_todos = flatten(todos)
    /\ input_mode = Normal
    /\ selected = <<>>
    /\ inline_entry_row = <<>>
    /\ next_id = 0
    /\ ret = NoCall
    /\ tabs = <<>>
    /\ current_page = 0
    /\ ZapWindow_new

\* refresh_list_with_settings: the new cached rows (every row of the list box
\* is replaced, so no row is selected afterwards)
refresh_list_with_settings(self) == flatten(self)

\* list_box.row_at_index(i) of a list box showing n rows: Option<index>
row_at_index(n, i) == IF i >= 0 /\ i < n THEN <<i>> ELSE <<>>

\* a selection that goes round from the last row to the first and back
move_selection_wrapping(sel, n, delta) ==
    IF sel # <<>> /\ n > 0 THEN <<(sel[1] + delta + n) % n>> ELSE row_at_index(n, 0)

\* move_selection(list_box, delta)
move_selection(sel, n, delta) ==
    IF sel # <<>>
    THEN IF sel[1] + delta >= 0 /\ row_at_index(n, sel[1] + delta) # <<>>
         THEN <<sel[1] + delta>>
         ELSE sel
    ELSE row_at_index(n, 0)

\* the key handler lets a Normal-mode action through; Action::MoveDown / MoveUp
ExecMoveSelection(delta) ==
    /\ input_mode = Normal
    /\ selected' = move_selection(selected, Len(flat_todos), delta)
    /\ UNCHANGED <<todos, disk, input_mode, flat_todos, inline_entry_row, next_id>>
    /\ UNCHANGED <<today, parserVars, storeVars, tabVars, entryVars>>

\* Action::ToggleFold
ExecToggleFold ==
    /\ input_mode = Normal
    /\ selected # <<>>
    /\ selected[1] < Len(flat_todos)
    /\ LET index == selected[1]
           id    == flat_todos[index + 1].todo.id
           after == toggle_fold(todos, id)
       IN  /\ todos' = after
           /\ flat_todos' = refresh_list_with_settings(after)
           /\ inline_entry_row' = <<>>
           /\ selected' = row_at_index(Len(flatten(after)), index)
    /\ UNCHANGED <<disk, input_mode, next_id>>
    /\ UNCHANGED <<today, parserVars, storeVars, tabVars, entryVars>>

\* Action::Insert: the inline entry row is appended and its handler connected
ExecInsert ==
    /\ input_mode = Normal
    /\ input_mode' = [kind |-> "Insert", path |-> <<>>]
    /\ inline_entry_row' = <<[kind |-> "Insert", path |-> <<>>]>>
    /\ UNCHANGED <<todos, disk, flat_todos, selected, next_id>>
    /\ UNCHANGED <<today, parserVars, storeVars, tabVars, entryVars>>

\* Todo::new(task_text, due_date, priority) whatever is left of the text
parsed_todo_of_any_text(id, parsed) ==
    <<Todo_new(id, parsed.task_text, parsed.due_date, parsed.priority)>>

\* if !task_text.trim().is_empty() { Todo::new(task_text, due_date, priority) }
parsed_todo(id, parsed) ==
    IF trim(parsed.task_text) # <<>>
    THEN <<Todo_new(id, parsed.task_text, parsed.due_date, parsed.priority)>>
    ELSE <<>>

\* the activate closure of Action::Insert keeping the line as it was typed
insert_commit_todo_unparsed(text, id, now) ==
    IF trim(text) = <<>> THEN <<>> ELSE <<Todo_new(id, trim(text), <<>>, "None")>>

\* what the activate closure of Action::Insert adds for the entered text:
\* Option<Todo>
insert_commit_todo(text, id, now) ==
    IF trim(text) = <<>> THEN <<>>
    ELSE LET section_name == strip_prefix(trim(text), SectionSigil)
         IN  IF section_name # <<>>
             THEN IF trim(section_name[1]) # <<>>
                  THEN <<Todo_new_section(id, trim(section_name[1]))>>
                  ELSE <<>>
             ELSE parsed_todo(id, parse_line(text, now))

\* the activate closure of Action::Insert, from the task it made of the text on
InsertCommit(todo) ==
    LET added == IF todo # <<>> THEN add(todos, disk, todo[1])
                                ELSE [self |-> todos, disk |-> disk]
        count == Len(flatten(added.self))
    IN  /\ todo # <<>> => next_id < MaxTasks
        /\ todos' = added.self
        /\ disk' = added.disk
        /\ next_id' = IF todo # <<>> THEN next_id + 1 ELSE next_id
        /\ inline_entry_row' = <<>>
        /\ flat_todos' = refresh_list_with_settings(added.self)
        /\ input_mode' = Normal
        /\ selected' = IF count > 0 THEN row_at_index(count, count - 1) ELSE <<>>

\* the activate closure of Action::Insert
InsertActivate(text) ==
    /\ inline_entry_row # <<>>
    /\ inline_entry_row[1].kind = "Insert"
    /\ InsertCommit(insert_commit_todo(text, next_id + 1, today))
    /\ UNCHANGED <<today, parserVars, storeVars, tabVars, windowVars>>

\* Action::InsertSubtask: the path of the selected row is captured
ExecInsertSubtask ==
    /\ input_mode = Normal
    /\ selected # <<>>
    /\ selected[1] < Len(flat_todos)
    /\ LET path == flat_todos[selected[1] + 1].path
       IN  /\ input_mode' = [kind |-> "InsertSubtask", path |-> path,
                              id |-> flat_todos[selected[1] + 1].todo.id]
           /\ inline_entry_row' = <<[kind |-> "InsertSubtask", path |-> path,
                                     id |-> flat_todos[selected[1] + 1].todo.id]>>
    /\ UNCHANGED <<todos, disk, flat_todos, selected, next_id>>
    /\ UNCHANGED <<today, parserVars, storeVars, tabVars, entryVars>>

\* what the activate closure of Action::InsertSubtask adds: Option<Todo>
insert_subtask_commit_todo(text, id, now) ==
    IF trim(text) = <<>> THEN <<>>
    ELSE parsed_todo(id, parse_line(text, now))

\* the activate closure of Action::InsertSubtask, from the captured path and
\* the task it made of the text on
InsertSubtaskCommit(path_c, todo) ==
    LET added == IF todo # <<>> THEN add_subtask(todos, disk, path_c, todo[1])
                                ELSE [self |-> todos, disk |-> disk]
    IN  /\ todo # <<>> => next_id < MaxTasks
        /\ todos' = added.self
        /\ disk' = added.disk
        /\ next_id' = IF todo # <<>> THEN next_id + 1 ELSE next_id
        /\ inline_entry_row' = <<>>
        /\ flat_todos' = refresh_list_with_settings(added.self)
        /\ input_mode' = Normal
        /\ selected' = <<>>

\* the activate closure of Action::InsertSubtask
InsertSubtaskActivate(text) ==
    /\ inline_entry_row # <<>>
    /\ inline_entry_row[1].kind = "InsertSubtask"
    /\ InsertSubtaskCommit(inline_entry_row[1].path,
                           insert_subtask_commit_todo(text, next_id + 1, today))
    /\ UNCHANGED <<today, parserVars, storeVars, tabVars, windowVars>>

\* Cancel that leaves the bottom entry as it is
Cancel_keeping_the_entry ==
    /\ input_mode # Normal
    /\ input_mode' = Normal
    /\ inline_entry_row' = <<>>
    /\ UNCHANGED <<todos, disk, flat_todos, selected, next_id>>
    /\ UNCHANGED <<today, parserVars, storeVars, tabVars, entryVars>>

\* the key handler outside Normal mode: only Cancel (Escape) acts; the inline
\* entry row is removed and the bottom entry emptied
Cancel ==
    /\ input_mode # Normal
    /\ input_mode' = Normal
    /\ inline_entry_row' = <<>>
    /\ command_entry' = [text |-> <<>>, sensitive |-> FALSE]
    /\ UNCHANGED <<todos, disk, flat_todos, selected, next_id>>
    /\ UNCHANGED <<today, parserVars, storeVars, tabVars>>
    /\ UNCHANGED <<notification, display_settings, view_type, calendar_state>>


-----------------------------------------------------------------------------
(* The keybinding resolver (src/src/keybindings.rs) and the key handler of *)
(* the window (src/src/ui/window.rs:312-487) with execute_action.          *)

\* a key event: the name key_to_string gives the key, and the modifiers held
Key(name, shift, ctrl, alt) ==
    [name |-> name, shift |-> shift, ctrl |-> ctrl, alt |-> alt]

\* KeyBinding
KeyBinding(key, shift, action, pending) ==
    [key |-> key, shift |-> shift, ctrl |-> FALSE, alt |-> FALSE,
     action |-> action, pending |-> pending]

\* Keybindings::default_config: the values of its bindings
default_config == {
    KeyBinding("j", FALSE, "MoveDown", <<>>),
    KeyBinding("k", FALSE, "MoveUp", <<>>),
    KeyBinding("g", FALSE, "JumpToFirst", <<"g">>),
    KeyBinding("G", TRUE, "JumpToLast", <<>>),
    KeyBinding("Return", FALSE, "ToggleComplete", <<>>),
    KeyBinding("d", FALSE, "Delete", <<"d">>),
    KeyBinding("J", TRUE, "MoveTaskDown", <<>>),
    KeyBinding("K", TRUE, "MoveTaskUp", <<>>),
    KeyBinding("a", FALSE, "ToggleFold", <<"z">>),
    KeyBinding("i", FALSE, "Insert", <<>>),
    KeyBinding("Return", TRUE, "InsertSubtask", <<>>),
    KeyBinding("e", FALSE, "Edit", <<>>),
    KeyBinding("colon", TRUE, "CommandMode", <<>>),
    KeyBinding("Escape", FALSE, "Cancel", <<>>)}

\* the place of a binding in the table of single keys, in the table of sequences
single_key_of(binding) == <<binding.key, binding.shift, binding.ctrl, binding.alt>>
sequence_of(binding) == <<binding.pending[1], binding.key>>

\* Keybindings::from_config: the two tables (no two bindings of the default
\* configuration have the same place)
Keybindings_from_config(config) ==
    LET single == {b \in config : b.pending = <<>>}
        seq    == {b \in config : b.pending # <<>>}
    IN  [single_key |->
            [t \in {single_key_of(b) : b \in single} |->
                (CHOOSE b \in single : single_key_of(b) = t).action],
         sequences |->
            [t \in {sequence_of(b) : b \in seq} |->
                (CHOOSE b \in seq : sequence_of(b) = t).action]]

\* Keybindings::load where no keybindings.json is there: the default configuration
keybindings == Keybindings_from_config(default_config)

\* Keybindings::get_action: Option<Action>
get_action(self, key) ==
    LET t == <<key.name, key.shift, key.ctrl, key.alt>>
    IN  IF t \in DOMAIN self.single_key THEN <<self.single_key[t]>> ELSE <<>>

\* Keybindings::get_sequence_action: Option<Action>
get_sequence_action(self, pending, key) ==
    LET t == <<pending, key.name>>
    IN  IF t \in DOMAIN self.sequences THEN <<self.sequences[t]>> ELSE <<>>

\* is_sequence_start that takes a key held with a modifier for no prefix
is_sequence_start_of_the_bare_key(self, key) ==
    IF ~key.shift /\ ~key.ctrl /\ ~key.alt
           /\ \E t \in DOMAIN self.sequences : t[1] = key.name
    THEN <<key.name>>
    ELSE <<>>

\* Keybindings::is_sequence_start: Option<String>
is_sequence_start(self, key) ==
    IF \E t \in DOMAIN self.sequences : t[1] = key.name
    THEN <<key.name>>
    ELSE <<>>

\* list_box.selected_row() is a row and flat.get(index) a task
selected_flat_todo ==
    IF selected # <<>> /\ selected[1] < Len(flat_todos)
    THEN <<flat_todos[selected[1] + 1]>>
    ELSE <<>>

\* a branch of execute_action that finds nothing to act on
ExecNothing ==
    /\ UNCHANGED uiVars
    /\ UNCHANGED <<today, parserVars, storeVars, tabVars, entryVars>>

\* Action::JumpToFirst
ExecJumpToFirst ==
    /\ input_mode = Normal
    /\ selected' = IF row_at_index(Len(flat_todos), 0) # <<>>
                   THEN row_at_index(Len(flat_todos), 0)
                   ELSE selected
    /\ UNCHANGED <<todos, disk, input_mode, flat_todos, inline_entry_row, next_id>>
    /\ UNCHANGED <<today, parserVars, storeVars, tabVars, entryVars>>

\* Action::JumpToLast
ExecJumpToLast ==
    /\ input_mode = Normal
    /\ LET count == Len(flat_todos)
       IN  selected' = IF count > 0 /\ row_at_index(Len(flat_todos), count - 1) # <<>>
                       THEN row_at_index(Len(flat_todos), count - 1)
                       ELSE selected
    /\ UNCHANGED <<todos, disk, input_mode, flat_todos, inline_entry_row, next_id>>
    /\ UNCHANGED <<today, parserVars, storeVars, tabVars, entryVars>>

\* new_flat.iter().position(|ft| ft.todo.id == task_id): Option<index>
position_of_id(flat, task_id) ==
    IF \E i \in 1..Len(flat) : flat[i].todo.id = task_id
    THEN <<Min({i \in 1..Len(flat) : flat[i].todo.id = task_id}) - 1>>
    ELSE <<>>

\* the first row of new_flat that has the path: Option<index>
position_of_path(flat, path) ==
    IF \E i \in 1..Len(flat) : flat[i].path = path
    THEN <<Min({i \in 1..Len(flat) : flat[i].path = path}) - 1>>
    ELSE <<>>

\* the store, the file and the rows after a method of the store and the
\* refresh that follows it: refresh_list_with_settings removes every child
\* of the list box, an inline entry row with them
Refreshed(r) ==
    /\ todos' = r.self
    /\ disk' = r.disk
    /\ flat_todos' = refresh_list_with_settings(r.self)
    /\ inline_entry_row' = <<>>

\* Action::ToggleComplete that selects the row at the index it had
ExecToggleComplete_keeping_the_index(r) ==
    /\ input_mode = Normal
    /\ Refreshed(r)
    /\ selected' = row_at_index(Len(flatten(r.self)), selected[1])
    /\ UNCHANGED <<input_mode, next_id>>
    /\ UNCHANGED <<today, parserVars, storeVars, tabVars, entryVars>>

\* Action::ToggleComplete, from what toggle_at_path did to the store
ExecToggleComplete(r) ==
    /\ input_mode = Normal
    /\ Refreshed(r)
    /\ LET index     == selected[1]
           task_id   == flat_todos[index + 1].todo.id
           new_flat  == flatten(r.self)
           found     == position_of_id(new_flat, task_id)
           new_index == IF found # <<>> THEN found[1] ELSE index
       IN  selected' = row_at_index(Len(new_flat), new_index)
    /\ UNCHANGED <<input_mode, next_id>>
    /\ UNCHANGED <<today, parserVars, storeVars, tabVars, entryVars>>

\* Action::Delete, from what remove_at_path did to the store
ExecDelete(r) ==
    /\ input_mode = Normal
    /\ Refreshed(r)
    /\ LET index     == selected[1]
           new_count == Len(flatten(r.self))
       IN  selected' = IF new_count > 0
                       THEN row_at_index(new_count,
                                         IF index < new_count - 1 THEN index
                                                                  ELSE new_count - 1)
                       ELSE <<>>
    /\ UNCHANGED <<input_mode, next_id>>
    /\ UNCHANGED <<today, parserVars, storeVars, tabVars, entryVars>>

\* Action::MoveTaskDown / MoveTaskUp, from what move_down / move_up did to the
\* store and the path the task has afterwards
ExecMoveTask(r, new_path) ==
    /\ input_mode = Normal
    /\ IF r.ret
       THEN /\ Refreshed(r)
            /\ LET new_flat == flatten(r.self)
                   found    == position_of_path(new_flat, new_path)
               IN  selected' = IF found # <<>>
                               THEN row_at_index(Len(new_flat), found[1])
                               ELSE <<>>
       ELSE UNCHANGED <<todos, disk, flat_todos, selected, inline_entry_row>>
    /\ UNCHANGED <<input_mode, next_id>>
    /\ UNCHANGED <<today, parserVars, storeVars, tabVars, entryVars>>

\* new_path of Action::MoveTaskDown: *last += 1
path_moved_down(path) == [path EXCEPT ![Len(path)] = @ + 1]

\* new_path of Action::MoveTaskUp: if *last > 0 { *last -= 1 }
path_moved_up(path) == [path EXCEPT ![Len(path)] = IF @ > 0 THEN @ - 1 ELSE @]

\* Action::Edit: the path of the selected row is frozen in the mode and the
\* bottom entry holds the text of the task
ExecEdit ==
    /\ input_mode = Normal
    /\ input_mode' = [kind |-> "Edit", path |-> selected_flat_todo[1].path,
                      id |-> selected_flat_todo[1].todo.id]
    /\ command_entry' = [text |-> selected_flat_todo[1].todo.text, sensitive |-> TRUE]
    /\ UNCHANGED <<todos, disk, flat_todos, selected, inline_entry_row, next_id>>
    /\ UNCHANGED <<today, parserVars, storeVars, tabVars>>
    /\ UNCHANGED <<notification, display_settings, view_type, calendar_state>>

\* Action::CommandMode
ExecCommandMode ==
    /\ input_mode' = [kind |-> "Command", path |-> <<>>]
    /\ command_entry' = [text |-> <<":">>, sensitive |-> TRUE]
    /\ UNCHANGED <<todos, disk, flat_todos, selected, inline_entry_row, next_id>>
    /\ UNCHANGED <<today, parserVars, storeVars, tabVars>>
    /\ UNCHANGED <<notification, display_settings, view_type, calendar_state>>

\* execute_action: the branch of the action; a branch that needs the selected
\* task does nothing when there is none
execute_action(action) ==
    CASE action = "MoveDown" -> ExecMoveSelection(1)
      [] action = "MoveUp" -> ExecMoveSelection(0 - 1)
      [] action = "JumpToFirst" -> ExecJumpToFirst
      [] action = "JumpToLast" -> ExecJumpToLast
      [] action = "ToggleComplete" ->
            IF selected_flat_todo # <<>>
            THEN ExecToggleComplete(toggle_at_path(todos, disk, selected_flat_todo[1].path))
            ELSE ExecNothing
      [] action = "Delete" ->
            IF selected_flat_todo # <<>>
            THEN ExecDelete(remove_at_path(todos, disk, selected_flat_todo[1].path))
            ELSE ExecNothing
      [] action = "MoveTaskDown" ->
            IF selected_flat_todo # <<>>
            THEN ExecMoveTask(move_down(todos, disk, selected_flat_todo[1].path, TRUE),
                              path_moved_down(selected_flat_todo[1].path))
            ELSE ExecNothing
      [] action = "MoveTaskUp" ->
            IF selected_flat_todo # <<>>
            THEN ExecMoveTask(move_up(todos, disk, selected_flat_todo[1].path),
                              path_moved_up(selected_flat_todo[1].path))
            ELSE ExecNothing
      [] action = "ToggleFold" ->
            IF selected_flat_todo # <<>> THEN ExecToggleFold ELSE ExecNothing
      [] action = "Insert" -> ExecInsert
      [] action = "InsertSubtask" ->
            IF selected_flat_todo # <<>> THEN ExecInsertSubtask ELSE ExecNothing
      [] action = "Edit" ->
            IF selected_flat_todo # <<>> THEN ExecEdit ELSE ExecNothing
      [] action = "CommandMode" -> ExecCommandMode
      [] action = "Cancel" -> ExecNothing

\* the key handler has executed the action for the key
Dispatched(key, action) ==
    /\ key_event' = [key |-> <<key>>, action |-> <<action>>]
    /\ execute_action(action)

\* the key handler has returned without executing an action
NotDispatched(key) ==
    /\ key_event' = [key |-> <<key>>, action |-> <<>>]
    /\ ExecNothing

\* the key handler in Normal mode and list view (window.rs:449-483), with
\* the Keybindings the window has loaded
KeyListWith(self, key) ==
    LET seq    == IF pending_key # <<>>
                  THEN get_sequence_action(self, pending_key[1], key)
                  ELSE <<>>
        start  == is_sequence_start(self, key)
        single == get_action(self, key)
    IN  IF seq # <<>>
        THEN pending_key' = <<>> /\ Dispatched(key, seq[1])
        ELSE IF start # <<>>
        THEN pending_key' = start /\ NotDispatched(key)
        ELSE IF single # <<>>
        THEN pending_key' = <<>> /\ Dispatched(key, single[1])
        ELSE pending_key' = <<>> /\ NotDispatched(key)

\* create_calendar_view: today is selected
create_calendar_view(now) ==
    [year |-> civil_from_days(now).year, month |-> civil_from_days(now).month,
     selected_day |-> civil_from_days(now).day]

\* navigate_calendar: the selection moves inside the month only
navigate_calendar(state, delta_days, delta_weeks) ==
    IF state = <<>> THEN state
    ELSE LET new_day == state[1].selected_day + delta_days + delta_weeks * 7
         IN  IF new_day >= 1 /\ new_day <= days_in_month(state[1].year, state[1].month)
             THEN <<[state[1] EXCEPT !.selected_day = new_day]>>
             ELSE state

\* change_calendar_month
change_calendar_month(state, delta) ==
    IF state = <<>> THEN state
    ELSE LET month     == state[1].month + delta
             new_month == IF month < 1 THEN 12 ELSE IF month > 12 THEN 1 ELSE month
             new_year  == IF month < 1 THEN state[1].year - 1
                          ELSE IF month > 12 THEN state[1].year + 1
                          ELSE state[1].year
             max_day   == days_in_month(new_year, new_month)
         IN  <<[year |-> new_year, month |-> new_month,
                selected_day |-> IF state[1].selected_day > max_day
                                 THEN max_day ELSE state[1].selected_day]>>

\* get_selected_calendar_date: Option<NaiveDate>
get_selected_calendar_date(state) ==
    IF state = <<>> THEN <<>>
    ELSE from_ymd_opt(state[1].year, state[1].month, state[1].selected_day)

\* the calendar of the tab after a key that moves in it
CalendarMoved(key, state) ==
    /\ calendar_state' = state
    /\ key_event' = [key |-> <<key>>, action |-> <<>>]
    /\ UNCHANGED <<pending_key, uiVars, today, parserVars, storeVars, tabVars>>
    /\ UNCHANGED <<command_entry, notification, display_settings, view_type>>

\* the key handler in Normal mode and calendar view (window.rs:383-447)
KeyCalendar(key) ==
    LET is_left  == key.name = "Left"
        is_right == key.name = "Right"
        is_up    == key.name = "Up"
        is_down  == key.name = "Down"
        picked   == get_selected_calendar_date(calendar_state)
    IN  IF key.ctrl /\ ~key.shift /\ ~key.alt /\ is_left
        THEN CalendarMoved(key, change_calendar_month(calendar_state, 0 - 1))
        ELSE IF key.ctrl /\ ~key.shift /\ ~key.alt /\ is_right
        THEN CalendarMoved(key, change_calendar_month(calendar_state, 1))
        ELSE IF key.name = "h" \/ (is_left /\ ~key.ctrl)
        THEN CalendarMoved(key, navigate_calendar(calendar_state, 0 - 1, 0))
        ELSE IF key.name = "l" \/ (is_right /\ ~key.ctrl)
        THEN CalendarMoved(key, navigate_calendar(calendar_state, 1, 0))
        ELSE IF key.name = "k" \/ is_up
        THEN CalendarMoved(key, navigate_calendar(calendar_state, 0, 0 - 1))
        ELSE IF key.name = "j" \/ is_down
        THEN CalendarMoved(key, navigate_calendar(calendar_state, 0, 1))
        ELSE IF key.name = "i" /\ picked # <<>>
        THEN /\ input_mode' = [kind |-> "CalendarInsert", path |-> <<>>, date |-> picked[1]]
             /\ command_entry' = [text |-> <<>>, sensitive |-> TRUE]
             /\ key_event' = [key |-> <<key>>, action |-> <<>>]
             /\ UNCHANGED <<todos, disk, flat_todos, selected, inline_entry_row, next_id>>
             /\ UNCHANGED <<pending_key, today, parserVars, storeVars, tabVars>>
             /\ UNCHANGED <<notification, display_settings, view_type, calendar_state>>
        ELSE IF key.name = "colon" /\ key.shift
        THEN /\ ExecCommandMode
             /\ key_event' = [key |-> <<key>>, action |-> <<>>]
             /\ UNCHANGED pending_key
        ELSE NotDispatched(key) /\ UNCHANGED pending_key

\* the key handler (window.rs:312-487) of a window with one tab: Ctrl+W closes
\* no page then, and opening more pages is KeyCtrlT below
KeyPressedWith(self, key) ==
    IF key.ctrl /\ ~key.shift /\ ~key.alt /\ key.name = "w"
    THEN NotDispatched(key) /\ UNCHANGED pending_key
    ELSE IF input_mode # Normal
    THEN IF get_action(self, key) = <<"Cancel">>
         THEN /\ Cancel
              /\ key_event' = [key |-> <<key>>, action |-> <<"Cancel">>]
              /\ UNCHANGED pending_key
         ELSE NotDispatched(key) /\ UNCHANGED pending_key
    ELSE IF view_type = "Calendar"
    THEN KeyCalendar(key)
    ELSE KeyListWith(self, key)

\* with the default bindings
KeyPressed(key) == KeyPressedWith(keybindings, key)
\* the handlers of insertion, with the key handler that leads to them left out
Next ==
    \/ \E delta \in {-1, 1} : ExecMoveSelection(delta) /\ UNCHANGED keyVars
    \/ ExecToggleFold /\ UNCHANGED keyVars
    \/ ExecInsert /\ UNCHANGED keyVars
    \/ \E text \in CommitLines : InsertActivate(text)
    \/ ExecInsertSubtask /\ UNCHANGED keyVars
    \/ \E text \in CommitLines : InsertSubtaskActivate(text)
    \/ Cancel /\ UNCHANGED keyVars

Spec == Init /\ [][Next]_vars

-----------------------------------------------------------------------------
(* The bottom entry: the activate handler of Command, Edit and             *)
(* CalendarInsert mode (src/src/ui/window.rs:853-1072), and the window     *)
(* driven by its keys.                                                     *)

\* the command vocabulary
CmdDisplayStart == <<":","d","i","s","p","l","a","y","_","s","t","a","r","t">>
CmdLs == <<":","l","s">>
CmdEditCalendar == <<":","e"," ","c","a","l","e","n","d","a","r">>
CmdEditCal == <<":","e"," ","c","a","l">>
CmdEditList == <<":","e"," ","l","i","s","t">>
CmdEditPrefix == <<":","e"," ">>
CmdNewPrefix == <<":","n"," ">>
CmdSort == <<":","s","o","r","t">>
TextCalendar == <<"c","a","l","e","n","d","a","r">>
TextCal == <<"c","a","l">>
TextList == <<"l","i","s","t">>

\* the clusters of the model, in the order of their names, and how a user
\* types them
ClusterOrder == <<"main", "work">>
ClusterText == [c \in {"main", "work"} |->
                   IF c = "main" THEN <<"m","a","i","n">> ELSE <<"w","o","r","k">>]

\* the cluster a typed name stands for
cluster_named(text) == CHOOSE c \in DOMAIN ClusterText : ClusterText[c] = text

\* a test of the file that every name passes
cluster_exists_whatever_the_name(dsk, cluster_name) == TRUE

\* TodoList::cluster_path(name).exists()
cluster_exists(dsk, cluster_name) ==
    cluster_name \in DOMAIN dsk /\ dsk[cluster_name] # <<>>

\* TodoList::list_clusters: the names of the files, sorted
list_clusters(dsk) == SelectSeq(ClusterOrder, LAMBDA c : cluster_exists(dsk, c))

\* the notification label showing a text; timer tells that a timeout that
\* hides the label is under way
Notified(text) ==
    notification' = [text |-> text, visible |-> TRUE, timer |-> notification.timer]

\* notification_label.set_visible(false) at the start of the handler
NotNotified == notification' = [notification EXCEPT !.visible = FALSE]

\* the tab shows a list: *todos = list; refresh_list_with_settings
Opened(list, dsk) ==
    /\ todos' = list
    /\ disk' = dsk
    /\ flat_todos' = refresh_list_with_settings(list)
    /\ inline_entry_row' = <<>>
    /\ selected' = <<>>

\* the view of the tab is switched
Viewed(view) ==
    /\ view_type' = view
    /\ calendar_state' = IF view = "Calendar" /\ calendar_state = <<>>
                         THEN <<create_calendar_view(today)>>
                         ELSE calendar_state
    /\ NotNotified
    /\ UNCHANGED <<todos, disk, flat_todos, selected, inline_entry_row, display_settings>>

\* the Command branch that compares the command without its case
CommandCommit_ignoring_case(cmd) ==
    IF to_lowercase(cmd) = CmdSort
    THEN /\ Opened(sort(todos, disk).self, sort(todos, disk).disk)
         /\ notification' = [text |-> <<"Tasks sorted">>, visible |-> TRUE, timer |-> TRUE]
         /\ UNCHANGED <<display_settings, view_type, calendar_state>>
    ELSE /\ NotNotified
         /\ UNCHANGED <<todos, disk, flat_todos, selected, inline_entry_row>>
         /\ UNCHANGED <<display_settings, view_type, calendar_state>>

\* the Command branch of the handler, for the trimmed text
CommandCommit(cmd) ==
    IF cmd = CmdDisplayStart
    THEN /\ display_settings' = [display_settings EXCEPT !.show_start_date = ~@]
         /\ Opened(todos, disk)
         /\ NotNotified
         /\ UNCHANGED <<view_type, calendar_state>>
    ELSE IF cmd = CmdLs
    THEN /\ Notified(IF list_clusters(disk) = <<>>
                     THEN <<"No clusters found">>
                     ELSE <<"Clusters: ">> \o list_clusters(disk))
         /\ UNCHANGED <<todos, disk, flat_todos, selected, inline_entry_row>>
         /\ UNCHANGED <<display_settings, view_type, calendar_state>>
    ELSE IF cmd = CmdEditCalendar \/ cmd = CmdEditCal
    THEN Viewed("Calendar")
    ELSE IF cmd = CmdEditList
    THEN Viewed("List")
    ELSE IF strip_prefix(cmd, CmdEditPrefix) # <<>>
    THEN LET cluster_name == trim(strip_prefix(cmd, CmdEditPrefix)[1])
         IN  IF cluster_name = TextCalendar \/ cluster_name = TextCal
             THEN Viewed("Calendar")
             ELSE IF cluster_name = TextList
             THEN Viewed("List")
             ELSE IF cluster_name # <<>>
             THEN IF cluster_exists(disk, cluster_named(cluster_name))
                  THEN /\ Opened(load(disk, cluster_named(cluster_name)), disk)
                       /\ view_type' = "List"
                       /\ NotNotified
                       /\ UNCHANGED <<display_settings, calendar_state>>
                  ELSE /\ Notified(<<"Cluster '", cluster_named(cluster_name),
                                     "' does not exist. Use :n to create.">>)
                       /\ UNCHANGED <<todos, disk, flat_todos, selected, inline_entry_row>>
                       /\ UNCHANGED <<display_settings, view_type, calendar_state>>
             ELSE /\ NotNotified
                  /\ UNCHANGED <<todos, disk, flat_todos, selected, inline_entry_row>>
                  /\ UNCHANGED <<display_settings, view_type, calendar_state>>
    ELSE IF strip_prefix(cmd, CmdNewPrefix) # <<>>
    THEN LET cluster_name == trim(strip_prefix(cmd, CmdNewPrefix)[1])
         IN  IF cluster_name # <<>>
             THEN LET new_list == load(disk, cluster_named(cluster_name))
                  IN  /\ Opened(new_list, save(new_list, disk))
                      /\ Notified(<<"Created cluster '", cluster_named(cluster_name), "'">>)
                      /\ UNCHANGED <<display_settings, view_type, calendar_state>>
             ELSE /\ NotNotified
                  /\ UNCHANGED <<todos, disk, flat_todos, selected, inline_entry_row>>
                  /\ UNCHANGED <<display_settings, view_type, calendar_state>>
    ELSE IF cmd = CmdSort
    THEN /\ Opened(sort(todos, disk).self, sort(todos, disk).disk)
         /\ notification' = [text |-> <<"Tasks sorted">>, visible |-> TRUE, timer |-> TRUE]
         /\ UNCHANGED <<display_settings, view_type, calendar_state>>
    ELSE /\ NotNotified
         /\ UNCHANGED <<todos, disk, flat_todos, selected, inline_entry_row>>
         /\ UNCHANGED <<display_settings, view_type, calendar_state>>

\* what the Edit and CalendarInsert branches make of the entered text:
\* Option<the parsed line>, None when the text or what is left of it is blank
\* if !task_text.trim().is_empty() { ... }
with_text(parsed) ==
    IF trim(parsed.task_text) = <<>> THEN <<>> ELSE <<parsed>>

entered(text, now) ==
    IF trim(text) = <<>> THEN <<>> ELSE with_text(parse_line(text, now))

\* the Edit branch that writes the text as it was entered
EditCommit_unparsed(path, parsed) ==
    /\ IF trim(command_entry.text) # <<>>
       THEN LET r == update_at_path(todos, disk, path, command_entry.text, <<>>, "None")
            IN  Opened(r.self, r.disk)
       ELSE UNCHANGED <<todos, disk, flat_todos, selected, inline_entry_row>>
    /\ NotNotified
    /\ UNCHANGED <<display_settings, view_type, calendar_state>>

\* the Edit branch of the handler, for the path frozen in the mode
EditCommit(path, parsed) ==
    /\ IF parsed # <<>>
       THEN LET r == update_at_path(todos, disk, path, parsed[1].task_text,
                                    parsed[1].due_date, parsed[1].priority)
            IN  Opened(r.self, r.disk)
       ELSE UNCHANGED <<todos, disk, flat_todos, selected, inline_entry_row>>
    /\ NotNotified
    /\ UNCHANGED <<display_settings, view_type, calendar_state>>

\* the CalendarInsert branch that keeps the date of the line when it has one
CalendarInsertCommit_with_the_date_of_the_line(date_c, parsed) ==
    /\ IF parsed # <<>>
       THEN LET r == add(todos, disk,
                         Todo_new(next_id + 1, parsed[1].task_text,
                                  IF parsed[1].due_date # <<>> THEN parsed[1].due_date
                                  ELSE <<date_c>>,
                                  parsed[1].priority))
            IN  /\ todos' = r.self
                /\ disk' = r.disk
       ELSE UNCHANGED <<todos, disk>>
    /\ NotNotified
    /\ UNCHANGED <<flat_todos, selected, inline_entry_row>>
    /\ UNCHANGED <<display_settings, view_type, calendar_state>>

\* the CalendarInsert branch of the handler: the task is added with the date
\* of the mode, and the list box is not refreshed
CalendarInsertCommit(date_c, parsed) ==
    /\ IF parsed # <<>>
       THEN LET r == add(todos, disk,
                         Todo_new(next_id + 1, parsed[1].task_text, <<date_c>>,
                                  parsed[1].priority))
            IN  /\ todos' = r.self
                /\ disk' = r.disk
       ELSE UNCHANGED <<todos, disk>>
    /\ NotNotified
    /\ UNCHANGED <<flat_todos, selected, inline_entry_row>>
    /\ UNCHANGED <<display_settings, view_type, calendar_state>>

\* match mode { ... } of the handler; parsed is what the Edit and
\* CalendarInsert branches make of the text
EntryCommit(parsed) ==
    IF input_mode.kind = "Command"
    THEN CommandCommit(trim(command_entry.text)) /\ UNCHANGED next_id
    ELSE IF input_mode.kind = "Edit"
    THEN EditCommit(input_mode.path, parsed) /\ UNCHANGED next_id
    ELSE IF input_mode.kind = "CalendarInsert"
    THEN /\ parsed # <<>> => next_id < MaxTasks
         /\ next_id' = IF parsed # <<>> THEN next_id + 1 ELSE next_id
         /\ CalendarInsertCommit(input_mode.date, parsed)
    ELSE /\ NotNotified
         /\ UNCHANGED <<todos, disk, flat_todos, selected, inline_entry_row, next_id>>
         /\ UNCHANGED <<display_settings, view_type, calendar_state>>

\* command_entry.connect_activate: the branch of the mode, then the entry is
\* emptied and the mode Normal
CommandEntryActivate ==
    /\ command_entry.sensitive
    /\ EntryCommit(entered(command_entry.text, today))
    /\ command_entry' = [text |-> <<>>, sensitive |-> FALSE]
    /\ input_mode' = Normal
    /\ key_event' = [key |-> <<>>, action |-> <<>>,
                     activated |-> [mode |-> input_mode.kind, text |-> command_entry.text]]
    /\ UNCHANGED pending_key
    /\ UNCHANGED <<today, parserVars, storeVars, tabVars>>

\* the user types in the bottom entry
TypeText(text) ==
    /\ command_entry.sensitive
    /\ command_entry.text # text
    /\ command_entry' = [command_entry EXCEPT !.text = text]
    /\ UNCHANGED <<uiVars, keyVars, today, parserVars, storeVars, tabVars>>
    /\ UNCHANGED <<notification, display_settings, view_type, calendar_state>>

\* the timeout of ":sort" hides the notification label, whatever it shows by
\* then; another such timeout may be under way
NotificationTimeout(more) ==
    /\ notification.timer
    /\ notification' = [notification EXCEPT !.visible = FALSE, !.timer = more]
    /\ UNCHANGED <<uiVars, keyVars, today, parserVars, storeVars, tabVars>>
    /\ UNCHANGED <<command_entry, display_settings, view_type, calendar_state>>

\* the keys of the model: every key of a default binding, Ctrl+D, Ctrl+W and
\* a key without a binding
Keys == {Key("j", FALSE, FALSE, FALSE), Key("k", FALSE, FALSE, FALSE),
         Key("g", FALSE, FALSE, FALSE), Key("G", TRUE, FALSE, FALSE),
         Key("Return", FALSE, FALSE, FALSE), Key("Return", TRUE, FALSE, FALSE),
         Key("d", FALSE, FALSE, FALSE), Key("d", FALSE, TRUE, FALSE),
         Key("J", TRUE, FALSE, FALSE), Key("K", TRUE, FALSE, FALSE),
         Key("z", FALSE, FALSE, FALSE), Key("a", FALSE, FALSE, FALSE),
         Key("i", FALSE, FALSE, FALSE), Key("e", FALSE, FALSE, FALSE),
         Key("colon", TRUE, FALSE, FALSE), Key("Escape", FALSE, FALSE, FALSE),
         Key("w", FALSE, TRUE, FALSE), Key("x", FALSE, FALSE, FALSE)}

\* the file of "main" an earlier run has left: a task with one subtask
StoredTodos ==
    <<[Todo_new(1, <<"a">>, <<>>, "None") EXCEPT
          !.subtasks = <<Todo_new(2, <<"c">>, <<>>, "None")>>]>>

\* ZapWindow::new over that file: refresh_tab selects the first row
InitStored ==
    /\ today = BaseDay
    /\ input = <<>>
    /\ cur = <<>>
    /\ prio = <<>>
    /\ date = <<>>
    /\ steps = <<>>
    /\ disk = [c \in {"main"} |-> <<[todos |-> StoredTodos]>>]
    /\ todos = load(disk, "main")
    /\ flat_todos = flatten(todos)
    /\ input_mode = Normal
    /\ selected = row_at_index(Len(flat_todos), 0)
    /\ inline_entry_row = <<>>
    /\ next_id = 2
    /\ ret = NoCall
    /\ tabs = <<>>
    /\ current_page = 0
    /\ ZapWindow_new

\* the window driven by every key, with the commands that switch the view
KeyTexts == IF input_mode.kind = "Command" THEN {CmdEditCal, CmdEditList}
                                           ELSE {LineBlank}

NextKey ==
    \/ \E key \in Keys : KeyPressed(key)
    \/ \E text \in {LineBlank} : InsertActivate(text)
    \/ \E text \in {LineBlank} : InsertSubtaskActivate(text)
    \/ \E text \in KeyTexts : TypeText(text)
    \/ CommandEntryActivate

KeySpec == InitStored /\ [][NextKey]_vars

\* the list of a window that starts empty, driven by the keys that move in
\* it and change it
ListKeys == {key \in Keys : /\ ~key.ctrl
                            /\ key.name \in {"j", "k", "g", "G", "Return", "J", "K",
                                             "z", "a", "i"}}

NextList ==
    \/ \E key \in ListKeys : KeyPressed(key)
    \/ InsertActivate(LinePlain)
    \/ InsertSubtaskActivate(LinePlain)

ListSpec == Init /\ [][NextList]_vars

\* the bottom entry of the window in list view: commands in and out of the
\* vocabulary, lines for the task that is edited, and the keys that lead to
\* them and fold a task
CommandKeys == {key \in Keys : ~key.ctrl /\ key.name \in {"j", "e", "colon", "z", "a"}}
CommandTexts == {CmdSort, <<":","S","O","R","T">>, <<":","s","o","r","t","x">>,
                 CmdLs, CmdDisplayStart,
                 CmdEditPrefix \o ClusterText["work"], CmdNewPrefix \o ClusterText["work"],
                 CmdEditPrefix \o ClusterText["main"], CmdNewPrefix \o ClusterText["main"]}
EditLines == {LineBuyMilkPriorityFirst, LineOnlyDirective, LineBlank}

TypedTexts ==
    IF input_mode.kind = "Command" THEN CommandTexts ELSE EditLines

NextCommand ==
    \/ \E key \in CommandKeys : KeyPressed(key)
    \/ \E text \in TypedTexts : TypeText(text)
    \/ CommandEntryActivate
    \/ \E more \in BOOLEAN : NotificationTimeout(more)

CommandSpec == InitStored /\ [][NextCommand]_vars

\* the window in calendar view: the commands that switch the view, the keys
\* that move in the calendar and open its entry, and the lines entered there
CalendarKeys == {key \in Keys : ~key.ctrl /\ key.name \in {"colon", "i", "j", "Escape"}}
                    \cup {Key("l", FALSE, FALSE, FALSE)}
CalendarLines == {LineBuyMilkPriorityFirst, LinePlain, LineOnlyDirective, LineBlank}

CalendarTexts ==
    IF input_mode.kind = "Command" THEN {CmdEditCal, CmdEditList} ELSE CalendarLines

NextCalendar ==
    \/ \E key \in CalendarKeys : KeyPressed(key)
    \/ \E text \in CalendarTexts : TypeText(text)
    \/ CommandEntryActivate

CalendarSpec == InitStored /\ [][NextCalendar]_vars

\* a keybindings.json that adds to the default bindings a binding of `d` on
\* its own, the prefix of `dd`, and a sequence `ww`
custom_config ==
    default_config \cup {KeyBinding("d", FALSE, "ToggleComplete", <<>>),
                         KeyBinding("w", FALSE, "JumpToLast", <<"w">>)}

\* Keybindings::load over that file
custom_keybindings == Keybindings_from_config(custom_config)

\* the window with those bindings, driven by the prefixes with and without
\* modifiers and by keys that are no prefix
BindingKeys ==
    {Key("d", shift, ctrl, alt) : shift, ctrl, alt \in BOOLEAN}
        \cup {Key("w", FALSE, ctrl, FALSE) : ctrl \in BOOLEAN}
        \cup {Key("g", FALSE, FALSE, FALSE), Key("j", FALSE, FALSE, FALSE),
              Key("z", FALSE, FALSE, FALSE), Key("a", FALSE, FALSE, FALSE),
              Key("Return", FALSE, FALSE, FALSE), Key("x", FALSE, FALSE, FALSE)}

NextBindings == \E key \in BindingKeys : KeyPressedWith(custom_keybindings, key)

BindingsSpec == InitStored /\ [][NextBindings]_vars

-----------------------------------------------------------------------------
(* The task store on its own: the methods of TodoList called in any order  *)
(* with any path (src/src/todo.rs:116-341).                                *)

\* the tasks handed to add and add_subtask
NewTodos(id) == {Todo_new(id, <<"a">>, <<>>, "None")}

\* the ids handed to toggle_fold
FoldIds == {1}

\* the values handed to update_at_path
UpdateInputs == {[text |-> <<"B">>, due_date |-> <<BaseDay>>, priority |-> "Max"]}

\* the paths handed to the methods: every &[usize] of at most MaxPathLen
\* indexes, the empty one included; an index is one of a list of MaxTasks
\* todos or the largest usize
StoreIndexes == 0..(MaxTasks - 1) \cup {usize_MAX}

StorePaths == UNION {[1..n -> StoreIndexes] : n \in 0..MaxPathLen}

\* a file that serde_json does not parse as a TodoList
Unparsable == [garbage |-> TRUE]

InitStore ==
    /\ today = BaseDay
    /\ input = <<>>
    /\ cur = <<>>
    /\ prio = <<>>
    /\ date = <<>>
    /\ steps = <<>>
    /\ disk \in {[c \in {"main"} |-> <<>>], [c \in {"main"} |-> <<Unparsable>>]}
    /\ todos = load(disk, "main")
    /\ flat_todos = <<>>
    /\ input_mode = Normal
    /\ selected = <<>>
    /\ inline_entry_row = <<>>
    /\ next_id = 0
    /\ ret = NoCall
    /\ tabs = <<>>
    /\ current_page = 0
    /\ ZapWindow_new

\* the store and the data directory after a call, and what it returned
Called(op, r, value) ==
    /\ ret.op # "panic"
    /\ todos' = r.self
    /\ disk' = r.disk
    /\ ret' = [op |-> op, value |-> value]
    /\ UNCHANGED <<today, parserVars, tabVars, windowVars>>
    /\ UNCHANGED <<input_mode, flat_todos, selected, inline_entry_row>>

StoreLoad ==
    /\ Called("load", [self |-> load(disk, "main"), disk |-> disk], <<>>)
    /\ UNCHANGED next_id

StoreAdd(todo) ==
    /\ next_id < MaxTasks
    /\ next_id' = next_id + 1
    /\ Called("add", add(todos, disk, todo), <<>>)

StoreAddSubtask(path, subtask) ==
    /\ next_id < MaxTasks
    /\ next_id' = next_id + 1
    /\ Called("add_subtask", add_subtask(todos, disk, path, subtask), <<>>)

StoreUpdateAt(path, u) ==
    /\ Called("update_at_path",
              update_at_path(todos, disk, path, u.text, u.due_date, u.priority), <<>>)
    /\ UNCHANGED next_id

StoreRemoveAt(path) ==
    /\ Called("remove_at_path", remove_at_path(todos, disk, path), <<>>)
    /\ UNCHANGED next_id

StoreCalled(op, r) == Called(op, r, r.ret)

\* a call that panicked: the process is gone, the data directory is as it was
Panicked ==
    /\ ret.op # "panic"
    /\ ret' = [op |-> "panic", value |-> <<>>]
    /\ UNCHANGED <<todos, disk, next_id>>
    /\ UNCHANGED <<today, parserVars, tabVars, windowVars>>
    /\ UNCHANGED <<input_mode, flat_todos, selected, inline_entry_row>>

StoreToggleAt(path) ==
    /\ StoreCalled("toggle_at_path", toggle_at_path(todos, disk, path))
    /\ UNCHANGED next_id

StoreMoveUp(path) ==
    /\ StoreCalled("move_up", move_up(todos, disk, path))
    /\ UNCHANGED next_id

MovedDown(r) ==
    IF r.panic THEN Panicked
    ELSE StoreCalled("move_down", r) /\ UNCHANGED next_id

StoreMoveDown(path, overflow_checks) ==
    MovedDown(move_down(todos, disk, path, overflow_checks))

StoreToggleFold(id) ==
    /\ Called("toggle_fold", [self |-> toggle_fold(todos, id), disk |-> disk], <<>>)
    /\ UNCHANGED next_id

StoreSort ==
    /\ Called("sort", sort(todos, disk), <<>>)
    /\ UNCHANGED next_id

NextStore ==
    \/ StoreLoad
    \/ \E todo \in NewTodos(next_id + 1) : StoreAdd(todo)
    \/ \E path \in StorePaths, todo \in NewTodos(next_id + 1) : StoreAddSubtask(path, todo)
    \/ \E path \in StorePaths, u \in UpdateInputs : StoreUpdateAt(path, u)
    \/ \E path \in StorePaths : StoreRemoveAt(path)
    \/ \E path \in StorePaths : StoreToggleAt(path)
    \/ \E path \in StorePaths : StoreMoveUp(path)
    \/ \E path \in StorePaths, overflow_checks \in BOOLEAN :
           StoreMoveDown(path, overflow_checks)
    \/ \E id \in FoldIds : StoreToggleFold(id)
    \/ StoreSort

StoreSpec == InitStore /\ [][NextStore]_vars

-----------------------------------------------------------------------------
(* The store with tasks of every kind and sort key: built with add,        *)
(* add_subtask, toggle_at_path and update_at_path, and sorted              *)
(* (src/src/todo.rs:243-383).                                              *)

\* the tasks handed to add and add_subtask: a text in three spellings, each
\* priority, two due dates and a section; the one of the highest priority
\* and the one of the earliest date have the text that sorts last
SortTodos(id) ==
    {Todo_new(id, text, <<>>, "None") : text \in {<<"a">>, <<"B">>, <<"b">>}}
    \cup {Todo_new(id, <<"a">>, <<>>, priority) : priority \in {"High", "Medium", "Low"}}
    \cup {Todo_new(id, <<"b">>, <<>>, "Max"),
          Todo_new(id, <<"b">>, <<BaseDay>>, "None"),
          Todo_new(id, <<"a">>, <<BaseDay + 1>>, "None"),
          Todo_new_section(id, <<"a">>)}

\* the tasks that are given subtasks
SortParents == {<<0>>}

\* the tasks that are toggled and updated
SortToggled == {<<0>>, <<1>>, <<0, 0>>}

NextSort ==
    \/ \E todo \in SortTodos(next_id + 1) : StoreAdd(todo)
    \/ \E path \in SortParents, todo \in SortTodos(next_id + 1) :
           StoreAddSubtask(path, todo)
    \/ \E path \in SortToggled : StoreToggleAt(path)
    \/ \E path \in SortToggled, u \in UpdateInputs : StoreUpdateAt(path, u)
    \/ StoreSort

SortSpec == InitStore /\ [][NextSort]_vars

-----------------------------------------------------------------------------
(* The tabs of the window: each page of the notebook holds its own         *)
(* TodoList, all of them write to one data directory                       *)
(* (src/src/ui/window.rs:164-241, 318-343, 490-553, 946-1052).             *)

\* the cluster names typed after :e and :n
TabClusters == {"main", "work"}

\* ZapWindow::new: one tab, add_tab("main"); the file of "main" is there
\* from an earlier run or not
InitTabs ==
    /\ today = BaseDay
    /\ input = <<>>
    /\ cur = <<>>
    /\ prio = <<>>
    /\ date = <<>>
    /\ steps = <<>>
    /\ disk \in {[c \in {"main"} |-> <<>>],
                 [c \in {"main"} |-> <<to_json(TodoList_default)>>]}
    /\ todos = TodoList_default
    /\ flat_todos = <<>>
    /\ input_mode = Normal
    /\ selected = <<>>
    /\ inline_entry_row = <<>>
    /\ next_id = 0
    /\ ret = NoCall
    /\ tabs = <<[todos |-> load(disk, "main"), cluster_name |-> "main"]>>
    /\ current_page = 0
    /\ ZapWindow_new

\* what the handlers of the tabs leave alone
TabsFrame ==
    UNCHANGED <<today, parserVars, todos, input_mode, flat_todos, selected,
                inline_entry_row, windowVars>>

\* Ctrl+T, open_new_tab: a page with TodoList::default() and no cluster name
KeyCtrlT ==
    /\ Len(tabs) < MaxTabs
    /\ tabs' = Append(tabs, [todos |-> TodoList_default, cluster_name |-> ""])
    /\ current_page' = Len(tabs)
    /\ ret' = [op |-> "open_new_tab", value |-> <<>>]
    /\ UNCHANGED <<disk, next_id>>
    /\ TabsFrame

\* Ctrl+W: the current page is removed when it is not the only one; the
\* notebook then shows a page next to it
KeyCtrlW ==
    /\ Len(tabs) > 1
    /\ tabs' = Vec_remove(tabs, current_page)
    /\ current_page' \in {p \in {current_page - 1, current_page} :
                             p >= 0 /\ p < Len(tabs) - 1}
    /\ ret' = [op |-> "close_tab", value |-> <<>>]
    /\ UNCHANGED <<disk, next_id>>
    /\ TabsFrame

\* the user picks another page of the notebook
SwitchPage(page) ==
    /\ page # current_page
    /\ current_page' = page
    /\ ret' = [op |-> "switch_page", value |-> <<>>]
    /\ UNCHANGED <<tabs, disk, next_id>>
    /\ TabsFrame

\* ":e name": the cluster is loaded into the current tab when its file exists
CommandEdit(cluster_name) ==
    /\ cluster_name \in DOMAIN disk /\ disk[cluster_name] # <<>>
    /\ tabs' = [tabs EXCEPT ![current_page + 1] =
                   [todos |-> load(disk, cluster_name), cluster_name |-> cluster_name]]
    /\ ret' = [op |-> "edit", value |-> <<>>]
    /\ UNCHANGED <<disk, current_page, next_id>>
    /\ TabsFrame

\* ":n name": the cluster is loaded into the current tab and saved
CommandNew(cluster_name) ==
    /\ tabs' = [tabs EXCEPT ![current_page + 1] =
                   [todos |-> load(disk, cluster_name), cluster_name |-> cluster_name]]
    /\ disk' = save(load(disk, cluster_name), disk)
    /\ ret' = [op |-> "new", value |-> <<>>]
    /\ UNCHANGED <<current_page, next_id>>
    /\ TabsFrame

\* a task is committed in the current tab: add on the TodoList of that tab
TabAdded(r) ==
    /\ tabs' = [tabs EXCEPT ![current_page + 1].todos = r.self]
    /\ disk' = r.disk
    /\ ret' = [op |-> "add", value |-> <<>>]
    /\ UNCHANGED current_page
    /\ TabsFrame

TabInsertCommit(todo) ==
    /\ next_id < MaxTasks
    /\ next_id' = next_id + 1
    /\ TabAdded(add(tabs[current_page + 1].todos, disk, todo))

NextTabs ==
    \/ KeyCtrlT
    \/ KeyCtrlW
    \/ \E page \in 0..(Len(tabs) - 1) : SwitchPage(page)
    \/ \E cluster_name \in TabClusters : CommandEdit(cluster_name)
    \/ \E cluster_name \in TabClusters : CommandNew(cluster_name)
    \/ \E todo \in NewTodos(next_id + 1) : TabInsertCommit(todo)

TabsSpec == InitTabs /\ [][NextTabs]_vars

-----------------------------------------------------------------------------
(* The window with its pages: the key handler and the entry handlers work  *)
(* on the TabContent of notebook.current_page(), while the mode, the       *)
(* pending key and the bottom entry belong to the window                   *)
(* (src/src/ui/window.rs:48-74, 318-360, 490-553, 861-886).                *)

\* TabContent of the page shown: the variables of the tab. `tabs` keeps the
\* TabContent of the other pages, and Shown in the place of the page shown
TabContent ==
    [todos |-> todos, flat_todos |-> flat_todos, selected |-> selected,
     inline_entry_row |-> inline_entry_row, view_type |-> view_type,
     calendar_state |-> calendar_state]

Shown == [shown |-> TRUE]

\* notebook.current_page() is now the page of that content
PageShown(content) ==
    /\ todos' = content.todos
    /\ flat_todos' = content.flat_todos
    /\ selected' = content.selected
    /\ inline_entry_row' = content.inline_entry_row
    /\ view_type' = content.view_type
    /\ calendar_state' = content.calendar_state

\* what Ctrl+T and Ctrl+W leave alone: the mode, the pending key, the bottom
\* entry and the files
TabShortcut(name) ==
    /\ key_event' = [key |-> <<Key(name, FALSE, TRUE, FALSE)>>, action |-> <<>>]
    /\ UNCHANGED <<disk, input_mode, next_id, pending_key>>
    /\ UNCHANGED <<command_entry, notification, display_settings>>
    /\ UNCHANGED <<today, parserVars, storeVars>>

\* Ctrl+T in any mode, open_new_tab: a page with TodoList::default() in list
\* view is appended and shown
WindowCtrlT ==
    /\ Len(tabs) < MaxTabs
    /\ tabs' = Append([tabs EXCEPT ![current_page + 1] = TabContent], Shown)
    /\ current_page' = Len(tabs)
    /\ PageShown([todos |-> TodoList_default, flat_todos |-> <<>>, selected |-> <<>>,
                  inline_entry_row |-> <<>>, view_type |-> "List",
                  calendar_state |-> <<>>])
    /\ TabShortcut("t")

\* Ctrl+W in any mode with more than one page: the page shown is removed and
\* the notebook shows a page next to it
WindowCtrlW ==
    /\ Len(tabs) > 1
    /\ \E page \in {p \in {current_page - 1, current_page} :
                        p >= 0 /\ p < Len(tabs) - 1} :
           /\ current_page' = page
           /\ PageShown(Vec_remove(tabs, current_page)[page + 1])
           /\ tabs' = [Vec_remove(tabs, current_page) EXCEPT ![page + 1] = Shown]
    /\ TabShortcut("w")

\* ZapWindow::new over the file of "main": one page
InitWindow ==
    /\ today = BaseDay
    /\ input = <<>>
    /\ cur = <<>>
    /\ prio = <<>>
    /\ date = <<>>
    /\ steps = <<>>
    /\ disk = [c \in {"main"} |-> <<[todos |-> StoredTodos]>>]
    /\ todos = load(disk, "main")
    /\ flat_todos = flatten(todos)
    /\ input_mode = Normal
    /\ selected = row_at_index(Len(flat_todos), 0)
    /\ inline_entry_row = <<>>
    /\ next_id = 2
    /\ ret = NoCall
    /\ tabs = <<Shown>>
    /\ current_page = 0
    /\ ZapWindow_new

\* the keys that buffer a prefix and enter the modes, the lines entered
WindowKeys == {key \in Keys : ~key.ctrl /\ key.name \in {"d", "e", "i", "colon", "Escape"}}
                  \cup {Key("Return", TRUE, FALSE, FALSE)}

WindowTexts ==
    IF input_mode.kind = "Command" THEN {CmdEditCal, CmdEditList} ELSE {LinePlain}

NextWindow ==
    \/ \E key \in WindowKeys : KeyPressed(key)
    \/ WindowCtrlT
    \/ WindowCtrlW
    \/ InsertActivate(LinePlain)
    \/ InsertSubtaskActivate(LinePlain)
    \/ \E text \in WindowTexts : TypeText(text)
    \/ CommandEntryActivate

WindowSpec == InitWindow /\ [][NextWindow]_vars

-----------------------------------------------------------------------------
(* Properties of the directive parser, checked under ParserSpec.           *)

\* the precedence the specification gives the levels: max > high > medium > low
LevelRank(p) ==
    CASE p = "Max" -> 4 [] p = "High" -> 3 [] p = "Medium" -> 2 [] p = "Low" -> 1

LevelWord(p) ==
    CASE p = "Max" -> <<"m","a","x">>
      [] p = "High" -> <<"h","i","g","h">>
      [] p = "Medium" -> <<"m","e","d","i","u","m">>
      [] p = "Low" -> <<"l","o","w">>

\* the two forms of a level's marker, in lower case
MarkerForms(p) ==
    {<<"[","p","r","i","o","r","i","t","y",":">> \o LevelWord(p) \o <<"]">>,
     <<"[","p",":">> \o LevelWord(p) \o <<"]">>}

\* the 1-based positions at which a marker of the level occurs in the text
MarkerAt(text, p) ==
    {<<i, form>> \in (1..Len(text)) \X MarkerForms(p) :
        starts_at(to_lowercase(text), form, i)}

LevelsPresent(text) ==
    {p \in {"Max", "High", "Medium", "Low"} : MarkerAt(text, p) # {}}

\* the date brackets of a text: <<i, j>> with s[i..j] = "[" keyword ":" body "]",
\* the keyword date or d in any case and the body non-empty and free of "]"
DateBrackets(s) ==
    {b \in {i \in 1..Len(s) : s[i] = "["} \X {j \in 1..Len(s) : s[j] = "]"} :
        \E kw \in {<<"d","a","t","e">>, <<"d">>} :
            LET c == b[1] + Len(kw) + 1
            IN  /\ b[2] > c + 1
                /\ to_lowercase(SubSeq(s, b[1] + 1, c - 1)) = kw
                /\ s[c] = ":"
                /\ \A k \in (c + 1)..(b[2] - 1) : s[k] # "]"}

FirstBracket(s) ==
    CHOOSE b \in DateBrackets(s) : \A o \in DateBrackets(s) : b[1] <= o[1]

\* the body of a date bracket, after its colon
BracketBody(s, b) ==
    LET colon == Min({k \in b[1]..b[2] : s[k] = ":"})
    IN  SubSeq(s, colon + 1, b[2] - 1)

\* what the body of a bracket resolves to
Resolves(s, b) == try_parse_date(to_lowercase(trim(BracketBody(s, b))), today)

\* the text without the characters i..j, its whitespace collapsed and trimmed
Without(s, i, j) ==
    join(split_whitespace(SubSeq(s, 1, i - 1) \o SubSeq(s, j + 1, Len(s))))

NoDateResolves(s) ==
    DateBrackets(s) = {} \/ Resolves(s, FirstBracket(s)) = <<>>

NoDirective(s) == DateBrackets(s) = {} /\ LevelsPresent(s) = {}

\* C1 (as claimed): parse_priority returns the highest-precedence level among
\* all the markers present, in either form and at any position, and removes
\* one occurrence of a marker of that level; with no marker it returns None
\* and the text unchanged.
C1_HighestPriorityWins ==
    steps = <<"P">> =>
        IF LevelsPresent(input) = {}
        THEN prio = <<"None">> /\ cur = input
        ELSE LET win == CHOOSE p \in LevelsPresent(input) :
                            \A o \in LevelsPresent(input) : LevelRank(p) >= LevelRank(o)
             IN  /\ prio = <<win>>
                 /\ \E m \in MarkerAt(input, win) :
                        cur = Without(input, m[1], m[1] + Len(m[2]) - 1)

\* the (remaining text, priority, date) of the two chains
ChainPD(text) ==
    LET p == parse_priority(text)
        d == parse_date(p[1], today)
    IN  <<d[1], p[2], d[2]>>

ChainDP(text) ==
    LET d == parse_date(text, today)
        p == parse_priority(d[1])
    IN  <<p[1], p[2], d[2]>>

\* C2 (as claimed): parse_priority then parse_date gives the same remaining
\* text, priority and date as parse_date then parse_priority.
C2_OrderIndependent ==
    Len(steps) = 2 =>
        <<cur, prio[1], date[1]>> =
            IF steps = <<"P", "D">> THEN ChainDP(input) ELSE ChainPD(input)

\* C3 (amended): when no date directive resolves, parse_date returns its input
\* with the leading and trailing whitespace trimmed and otherwise unchanged
\* (the bracket retained), and no date; chaining parse_priority then
\* parse_date on a text without any directive gives the trimmed text and
\* (None, None).
C3_UnresolvedReturnsTrimmedInput ==
    /\ (steps = <<"D">> /\ NoDateResolves(input)) =>
            (date = << <<>> >> /\ cur = trim(input))
    /\ (steps = <<"P", "D">> /\ NoDirective(input)) =>
            (prio = <<"None">> /\ date = << <<>> >> /\ cur = trim(input))

\* C3 (as claimed): the text comes back character for character unchanged,
\* leading and trailing whitespace included.
C3_UnresolvedReturnsInputUnchanged ==
    /\ (steps = <<"D">> /\ NoDateResolves(input)) =>
            (date = << <<>> >> /\ cur = input)
    /\ (steps = <<"P", "D">> /\ NoDirective(input)) =>
            (prio = <<"None">> /\ date = << <<>> >> /\ cur = input)

\* an unresolvable bracket in a text with whitespace around it went through parse_date
C3_Witness ==
    /\ steps = <<"D">>
    /\ DateBrackets(input) # {}
    /\ NoDateResolves(input)
    /\ input # trim(input)
    /\ cur = trim(input)
    /\ date = << <<>> >>

\* the body of the directive of a DateText
DateTextBody == SubSeq(input, Len(DateText(<<>>)), Len(input) - 1)

IsDateText == input = DateText(DateTextBody)

\* the number of days the parsed date lies after today
DaysAhead == date[1][1] - today

\* C4 (amended): `next W` resolves to the date with weekday W in the week after
\* today's (weeks starting on Monday): today + (W - today's weekday) + 7, which
\* is 7 days ahead when today is a W, 8 to 13 days ahead when W comes later in
\* the week than today, and only 1 to 6 days ahead when W comes earlier.
C4_NextWeekdayIsInTheFollowingWeek ==
    \A wn \in WeekdayNames :
        (steps = <<"D">> /\ IsDateText /\ DateTextBody = NextPrefix \o wn[1]) =>
            /\ date # << <<>> >>
            /\ num_days_from_monday(date[1][1]) = wn[2]
            /\ DaysAhead = (wn[2] - num_days_from_monday(today)) + 7
            /\ DaysAhead \in 1..13
            /\ DaysAhead >= 7 <=> wn[2] >= num_days_from_monday(today)

\* C4 (as claimed): `next W` resolves to a date with weekday W at least 7 days
\* after today.
C4_NextWeekdayIsAWeekAhead ==
    \A wn \in WeekdayNames :
        (steps = <<"D">> /\ IsDateText /\ DateTextBody = NextPrefix \o wn[1]) =>
            /\ date # << <<>> >>
            /\ num_days_from_monday(date[1][1]) = wn[2]
            /\ DaysAhead >= 7

\* `next W` was resolved on a day later in the week than W
C4_Witness ==
    \E wn \in WeekdayNames :
        /\ steps = <<"D">>
        /\ IsDateText
        /\ DateTextBody = NextPrefix \o wn[1]
        /\ wn[2] < num_days_from_monday(today)
        /\ date # << <<>> >>
        /\ DaysAhead < 7

\* C5: a bare weekday W resolves to the date with weekday W between 1 and 7
\* days after today: the weekday delta when it is positive, the delta plus 7
\* otherwise (today + 7 when today is a W).
C5_BareWeekdayWithinAWeek ==
    \A wn \in WeekdayNames :
        (steps = <<"D">> /\ IsDateText /\ DateTextBody = wn[1]) =>
            LET delta == wn[2] - num_days_from_monday(today)
            IN  /\ date # << <<>> >>
                /\ num_days_from_monday(date[1][1]) = wn[2]
                /\ DaysAhead \in 1..7
                /\ DaysAhead = IF delta > 0 THEN delta ELSE delta + 7
                /\ cur = <<"x">>

\* a bare weekday was resolved on a day of that weekday
C5_Witness ==
    \E wn \in WeekdayNames :
        /\ steps = <<"D">>
        /\ IsDateText
        /\ DateTextBody = wn[1]
        /\ wn[2] = num_days_from_monday(today)
        /\ date = << <<today + 7>> >>

\* a real calendar date: in range, and the day number of y-m-d is that of no other date
RealDate(y, m, d) ==
    /\ m \in 1..12
    /\ d \in 1..31
    /\ civil_from_days(days_from_civil(y, m, d)) = [year |-> y, month |-> m, day |-> d]

FullYear(y) == IF y < 100 THEN 2000 + y ELSE y

\* the directive did not match: no date, and the text with its bracket
Unmatched == date = << <<>> >> /\ cur = input

\* C6: a slash date whose month is outside 1..12, whose day is outside 1..31 or
\* that is no real calendar date never matches (no date, the bracket stays); a
\* valid three-part body has the year 2000 + YY when YY < 100 and YY otherwise.
C6_InvalidSlashDateNeverMatches ==
    (steps = <<"D">> /\ IsDateText) =>
        /\ \A m \in SlashMonths, d \in SlashDays :
              (DateTextBody = slash2(m, d) /\ ~RealDate(year_of(today), m, d))
                  => Unmatched
        /\ \A m \in SlashMonths, d \in SlashDays, y \in SlashYears :
              DateTextBody = slash3(m, d, y) =>
                  IF RealDate(FullYear(y), m, d)
                  THEN /\ date # << <<>> >>
                       /\ civil_from_days(date[1][1]) =
                              [year |-> FullYear(y), month |-> m, day |-> d]
                       /\ cur = <<"x">>
                  ELSE Unmatched

\* 2/29/23 went through parse_date: 2023 is no leap year
C6_Witness ==
    /\ steps = <<"D">>
    /\ input = DateText(slash3(2, 29, 23))
    /\ Unmatched

\* C7 (amended): parse_date looks at the leftmost date bracket only.  When its
\* body does not resolve there is no date and the text comes back trimmed of
\* leading and trailing whitespace and otherwise unchanged, also when a later
\* bracket would resolve; when it resolves, only that bracket is cut out and
\* every later date bracket is still in the text.
C7_OnlyTheFirstBracketCounts ==
    (steps = <<"D">> /\ DateBrackets(input) # {}) =>
        LET b == FirstBracket(input)
        IN  IF Resolves(input, b) = <<>>
            THEN date = << <<>> >> /\ cur = trim(input)
            ELSE /\ date = <<Resolves(input, b)>>
                 /\ cur = Without(input, b[1], b[2])
                 /\ \A o \in DateBrackets(input) :
                        o[1] > b[2] =>
                            find(cur, join(split_whitespace(SubSeq(input, o[1], o[2])))) # <<>>

\* C7 (as claimed): with an unresolvable first bracket the whole text comes
\* back unchanged.
C7_FirstBracketUnresolvedTextUnchanged ==
    (steps = <<"D">> /\ DateBrackets(input) # {}) =>
        LET b == FirstBracket(input)
        IN  IF Resolves(input, b) = <<>>
            THEN date = << <<>> >> /\ cur = input
            ELSE /\ date = <<Resolves(input, b)>>
                 /\ cur = Without(input, b[1], b[2])

\* the first bracket did not resolve, a later one would have
C7_Witness ==
    /\ steps = <<"D">>
    /\ DateBrackets(input) # {}
    /\ Resolves(input, FirstBracket(input)) = <<>>
    /\ \E o \in DateBrackets(input) :
          o[1] > FirstBracket(input)[2] /\ Resolves(input, o) # <<>>
    /\ date = << <<>> >>

-----------------------------------------------------------------------------
(* Properties of the handlers and the task store, checked under Spec.      *)

TextBuyMilk == <<"B","u","y"," ","m","i","l","k">>

\* C8: from an empty store, the commit of `Buy milk [date:tomorrow] [p:high]`
\* in Insert mode, the directives in either order, adds exactly one top-level
\* task with the text `Buy milk`, the due date today + 1, the priority High,
\* not completed and without subtasks, and puts the mode back to Normal.
C8_CommitAddsTheParsedTask ==
    [][\A text \in {LineBuyMilkDateFirst, LineBuyMilkPriorityFirst} :
          (todos.todos = <<>> /\ input_mode.kind = "Insert" /\ InsertActivate(text)) =>
              /\ Len(todos'.todos) = 1
              /\ todos'.todos[1].text = TextBuyMilk
              /\ todos'.todos[1].due_date = <<today + 1>>
              /\ todos'.todos[1].priority = "High"
              /\ todos'.todos[1].completed = FALSE
              /\ todos'.todos[1].subtasks = <<>>
              /\ todos'.todos[1].is_section = FALSE
              /\ Len(flat_todos') = 1
              /\ input_mode' = Normal]_vars

\* the first task of the session is the one made of the Buy-milk line
C8_Witness ==
    /\ next_id = 1
    /\ todos.todos = <<Todo_new(1, TextBuyMilk, <<today + 1>>, "High")>>
    /\ input_mode = Normal
    /\ inline_entry_row = <<>>

\* p is a proper prefix of q
ProperPrefix(p, q) == Len(p) < Len(q) /\ SubSeq(q, 1, Len(p)) = p

\* p comes before q in depth-first pre-order with siblings in list order
PathBefore(p, q) ==
    \/ ProperPrefix(p, q)
    \/ \E k \in 1..Min({Len(p), Len(q)}) :
          SubSeq(p, 1, k - 1) = SubSeq(q, 1, k - 1) /\ p[k] < q[k]

\* the paths of length n that resolve to a task: a tree of at most next_id
\* tasks has no index above next_id - 1
RECURSIVE PathsOfLength(_, _)
PathsOfLength(self, n) ==
    IF n = 0 THEN {<<>>}
    ELSE {q \in {Append(p, i) : p \in PathsOfLength(self, n - 1), i \in 0..(next_id - 1)} :
             get_at_path(self, q) # <<>>}

\* the paths of all the tasks of the tree: it holds at most next_id tasks
TaskPaths(self) == UNION {PathsOfLength(self, n) : n \in 1..next_id}

\* the paths of the tasks none of whose proper ancestors is folded
VisiblePaths(self) ==
    {p \in TaskPaths(self) :
        \A k \in 1..(Len(p) - 1) :
            get_at_path(self, SubSeq(p, 1, k))[1].id \notin self.folded_ids}

RowPaths(rows) == {rows[i].path : i \in 1..Len(rows)}

\* C9: flatten() returns exactly the tasks without a folded proper ancestor,
\* each once, in depth-first pre-order with siblings in list order; the depth
\* of a row is the length of its path minus one, its path resolves to the task
\* of the row, has_subtasks tells whether that task has subtasks and is_folded
\* whether its id is in the fold set.
C9_FlattenShowsTheUnfoldedTree ==
    LET rows == flatten(todos)
    IN  /\ RowPaths(rows) = VisiblePaths(todos)
        /\ \A i, j \in 1..Len(rows) : i < j => PathBefore(rows[i].path, rows[j].path)
        /\ \A i \in 1..Len(rows) :
              /\ rows[i].depth = Len(rows[i].path) - 1
              /\ get_at_path(todos, rows[i].path) = <<rows[i].todo>>
              /\ rows[i].has_subtasks <=> rows[i].todo.subtasks # <<>>
              /\ rows[i].is_folded <=> rows[i].todo.id \in todos.folded_ids
        /\ flat_todos = rows

\* a folded subtask hides its own subtask
C9_Witness ==
    /\ VisiblePaths(todos) # TaskPaths(todos)
    /\ \E i \in 1..Len(flat_todos) :
          /\ flat_todos[i].depth = 1
          /\ flat_todos[i].is_folded
          /\ flat_todos[i].has_subtasks
    /\ Len(flat_todos) = 2

\* C10: toggle_fold leaves the task tree and the stored blob as they are;
\* when it folds a task no descendant of the task is a row of flatten(), and
\* toggling the same id once more gives flatten() the rows, in the order, it
\* had before the first toggle.
C10_ToggleFoldOnlyChangesTheView ==
    [][ExecToggleFold =>
          LET row == flat_todos[selected[1] + 1]
              id  == row.todo.id
          IN  /\ todos'.todos = todos.todos
              /\ disk' = disk
              /\ id \in todos'.folded_ids <=> id \notin todos.folded_ids
              /\ id \in todos'.folded_ids =>
                    \A p \in TaskPaths(todos') :
                        ProperPrefix(row.path, p) => p \notin RowPaths(flatten(todos'))
              /\ flatten(toggle_fold(todos', id)) = flatten(todos)
              /\ toggle_fold(todos', id).todos = todos.todos]_vars

\* a task with subtasks is folded, its subtasks are off the rows and still in
\* the tree and in the stored blob
C10_Witness ==
    /\ \E i \in 1..Len(flat_todos) :
          /\ flat_todos[i].is_folded
          /\ flat_todos[i].has_subtasks
          /\ flat_todos[i].depth = 0
    /\ Len(flat_todos) < Cardinality(TaskPaths(todos))
    /\ disk["main"] = <<to_json(todos)>>

-----------------------------------------------------------------------------
(* The claims about the task store, checked under StoreSpec.               *)

\* the tree with the sibling list of a path replaced, written without the
\* store's own accessors: siblings_at is that list, with_siblings the tree
RECURSIVE siblings_in(_, _)
siblings_in(list, path) ==
    IF Len(path) = 1 THEN list
    ELSE siblings_in(list[path[1] + 1].subtasks, Tail(path))

RECURSIVE with_siblings_in(_, _, _)
with_siblings_in(list, path, siblings) ==
    IF Len(path) = 1 THEN siblings
    ELSE [list EXCEPT ![path[1] + 1].subtasks =
              with_siblings_in(@, Tail(path), siblings)]

\* the paths of the store at hand that lead to a task
Resolvable == {path \in StorePaths : get_at_path(todos, path) # <<>>}

\* a sibling list with the element at idx flipped to completed and moved to
\* the end, the others in their order
completed_last(list, idx) ==
    [i \in 1..Len(list) |->
        IF i <= idx THEN list[i]
        ELSE IF i < Len(list) THEN list[i + 1]
        ELSE [list[idx + 1] EXCEPT !.completed = TRUE]]

\* C11: toggle_at_path on a resolvable path flips the task's completed flag;
\* a task that becomes completed moves to the end of its own sibling list,
\* the others keep their order and the index returned is the length of that
\* list minus one; a task that becomes incomplete stays where it is and no
\* index is returned; nothing else in the tree changes.
C11_ToggleMovesTheCompletedTaskLast ==
    \A path \in Resolvable :
        LET r    == toggle_at_path(todos, disk, path)
            list == siblings_in(todos.todos, path)
            idx  == path[Len(path)]
        IN  IF list[idx + 1].completed
            THEN /\ r.ret = <<>>
                 /\ r.self = [todos EXCEPT !.todos = with_siblings_in(@, path,
                        [list EXCEPT ![idx + 1].completed = FALSE])]
            ELSE /\ r.ret = <<Len(list) - 1>>
                 /\ r.self = [todos EXCEPT !.todos = with_siblings_in(@, path,
                        completed_last(list, idx))]

\* the first of three tasks was toggled: it is completed and last, behind
\* the other two in their order, and the index returned is 2
C11_Witness ==
    /\ ret.op = "toggle_at_path"
    /\ ret.value = <<2>>
    /\ Len(todos.todos) = 3
    /\ todos.todos[1].id = 2 /\ ~todos.todos[1].completed
    /\ todos.todos[2].id = 3 /\ ~todos.todos[2].completed
    /\ todos.todos[3].id = 1 /\ todos.todos[3].completed

\* the data directory a method may find: as the store left it, or with the
\* cluster's file gone or not parsable
DataDirs == {disk, [c \in {"main"} |-> <<>>], [c \in {"main"} |-> <<Unparsable>>]}

\* the data directory holds the tree of the store under its cluster name
Persisted(self, dsk) == dsk[self.cluster_name] = <<[todos |-> self.todos]>>

\* a sibling list with the elements at the 0-based places a and b exchanged
exchanged(list, a, b) ==
    [i \in 1..Len(list) |->
        IF i = a + 1 THEN list[b + 1] ELSE IF i = b + 1 THEN list[a + 1] ELSE list[i]]

\* C12: on a resolvable path, move_up at sibling index 0 and move_down at the
\* last sibling index return false, leave the tree as it is and write
\* nothing; at any other index they exchange the task with the sibling next
\* to it and change nothing else, write the tree and return true.
C12_MoveSwapsWithTheAdjacentSibling ==
    \A path \in Resolvable, dsk \in DataDirs, overflow_checks \in BOOLEAN :
        LET up   == move_up(todos, dsk, path)
            down == move_down(todos, dsk, path, overflow_checks)
            list == siblings_in(todos.todos, path)
            idx  == path[Len(path)]
        IN  /\ IF idx = 0
               THEN up = [self |-> todos, disk |-> dsk, ret |-> FALSE]
               ELSE /\ up.ret = TRUE
                    /\ up.self = [todos EXCEPT !.todos = with_siblings_in(@, path,
                           exchanged(list, idx, idx - 1))]
                    /\ Persisted(up.self, up.disk)
            /\ IF idx = Len(list) - 1
               THEN down = [self |-> todos, disk |-> dsk, ret |-> FALSE,
                            panic |-> FALSE]
               ELSE /\ down.ret = TRUE
                    /\ ~down.panic
                    /\ down.self = [todos EXCEPT !.todos = with_siblings_in(@, path,
                           exchanged(list, idx, idx + 1))]
                    /\ Persisted(down.self, down.disk)

\* the last of three tasks was moved up: it stands between the other two,
\* and the file holds that order
C12_Witness ==
    /\ ret = [op |-> "move_up", value |-> TRUE]
    /\ Len(todos.todos) = 3
    /\ todos.todos[1].id = 1 /\ todos.todos[2].id = 3 /\ todos.todos[3].id = 2
    /\ Persisted(todos, disk)

-----------------------------------------------------------------------------
(* The claims about sort, checked under SortSpec.                          *)

\* the sibling lists of a tree, at every depth
RECURSIVE sibling_lists(_)
sibling_lists(list) ==
    {list} \cup UNION {sibling_lists(list[i].subtasks) : i \in 1..Len(list)}

\* the key of a task but for its text: is-section, completed, the rank of
\* the priority, whether it lacks a due date, the due date
key_rank(priority) ==
    CASE priority = "Max" -> 0 [] priority = "High" -> 1 [] priority = "Medium" -> 2
      [] priority = "Low" -> 3 [] priority = "None" -> 4

key_of(todo) ==
    << IF todo.is_section THEN 1 ELSE 0,
       IF todo.completed THEN 1 ELSE 0,
       key_rank(todo.priority),
       IF todo.due_date = <<>> THEN 1 ELSE 0,
       IF todo.due_date = <<>> THEN 0 ELSE todo.due_date[1] >>

\* the first place where two keys differ, 0 when they are the same
first_difference(k, l) ==
    LET places == {i \in 1..Len(k) : k[i] # l[i]}
    IN  IF places = {} THEN 0 ELSE Min(places)

\* a's key is smaller than b's: lexicographic, the lower-cased text last
key_less(a, b) ==
    LET at == first_difference(key_of(a), key_of(b))
    IN  IF at # 0 THEN key_of(a)[at] < key_of(b)[at]
        ELSE str_cmp(to_lowercase(a.text), to_lowercase(b.text)) = Less

key_equal(a, b) == ~key_less(a, b) /\ ~key_less(b, a)

\* the task of id x stands before its sibling of id y
stands_before(list, x, y) ==
    \E l \in sibling_lists(list) :
        \E i, j \in 1..Len(l) : i < j /\ l[i].id = x /\ l[j].id = y

C15_UpdateWritesTextDateAndPriorityOnly ==
    \A path \in Resolvable, u \in UpdateInputs :
        LET r    == update_at_path(todos, disk, path, u.text, u.due_date, u.priority)
            list == siblings_in(todos.todos, path)
            idx  == path[Len(path)]
            old  == list[idx + 1]
            new  == [id |-> old.id, text |-> u.text, completed |-> old.completed,
                     due_date |-> u.due_date, created_at |-> old.created_at,
                     subtasks |-> old.subtasks, priority |-> u.priority,
                     is_section |-> old.is_section]
        IN  r.self = [todos EXCEPT !.todos =
                         with_siblings_in(@, path, [list EXCEPT ![idx + 1] = new])]

\* a completed section with a subtask, behind another task, was updated: it
\* has the new text, date and priority, and is still a completed section
\* with its subtask, in its place
C15_Witness ==
    /\ ret.op = "update_at_path"
    /\ Len(todos.todos) = 2
    /\ todos.todos[1].text = <<"a">>
    /\ todos.todos[2].text = <<"B">> /\ todos.todos[2].priority = "Max"
    /\ todos.todos[2].due_date = <<BaseDay>>
    /\ todos.todos[2].is_section /\ todos.todos[2].completed
    /\ Len(todos.todos[2].subtasks) = 1

\* the paths that lead to no task of the store at hand: the empty path and
\* those with an index that is out of range at its depth
NotFound == StorePaths \ Resolvable

\* C16: add_subtask, update_at_path, remove_at_path, toggle_at_path, move_up
\* and move_down, called with the empty path or a path with an index out of
\* range at its depth, leave the tree and the fold set as they are, write
\* nothing, and return None or false; none of them panics.
C16_NotFoundIsANoOp ==
    \A path \in NotFound, dsk \in DataDirs :
        /\ \A subtask \in NewTodos(next_id + 1) :
               add_subtask(todos, dsk, path, subtask) = [self |-> todos, disk |-> dsk]
        /\ \A u \in UpdateInputs :
               update_at_path(todos, dsk, path, u.text, u.due_date, u.priority)
                   = [self |-> todos, disk |-> dsk]
        /\ remove_at_path(todos, dsk, path) = [self |-> todos, disk |-> dsk]
        /\ toggle_at_path(todos, dsk, path)
               = [self |-> todos, disk |-> dsk, ret |-> <<>>]
        /\ move_up(todos, dsk, path) = [self |-> todos, disk |-> dsk, ret |-> FALSE]
        /\ \A overflow_checks \in BOOLEAN :
               move_down(todos, dsk, path, overflow_checks)
                   = [self |-> todos, disk |-> dsk, ret |-> FALSE, panic |-> FALSE]

\* C17: with one holder of the cluster and no failing write, every call that
\* changes the tree leaves the file equal to the tree in memory, and at any
\* time load gives the tree in memory with an empty fold set.
C17_TheFileFollowsTheTree ==
    /\ [](load(disk, todos.cluster_name) = [todos EXCEPT !.folded_ids = {}])
    /\ [][todos'.todos # todos.todos => Persisted(todos', disk')]_vars

\* a store of three tasks on two levels, one of them completed and one
\* folded before, was loaded again: the tree is the one the file holds and
\* nothing is folded
C17_Witness ==
    /\ ret.op = "load"
    /\ Len(todos.todos) = 2
    /\ Len(todos.todos[1].subtasks) = 1
    /\ todos.todos[2].completed
    /\ todos.folded_ids = {}
    /\ Persisted(todos, disk)

\* the names load is called with: the cluster of the store, and one that no
\* file of the data directory bears
ClusterNames == {"main", "work"}

\* C18: load of a name that has no file, or whose file is not read or not
\* parsed, gives a store with an empty tree, an empty fold set and that
\* name, and load writes nothing.
C18_LoadOfNoTreeGivesTheEmptyStore ==
    /\ [](\A name \in ClusterNames :
              (name \notin DOMAIN disk \/ disk[name] = <<>> \/ disk[name] = <<Unparsable>>)
                  => load(disk, name) =
                         [todos |-> <<>>, cluster_name |-> name, folded_ids |-> {}])
    /\ [][ret'.op = "load" => disk' = disk]_vars

\* the cluster was loaded from a file that does not parse: the store is
\* empty and bears the name, the file is as it was
C18_Witness ==
    /\ ret.op = "load"
    /\ disk["main"] = <<Unparsable>>
    /\ todos = [todos |-> <<>>, cluster_name |-> "main", folded_ids |-> {}]

\* the tasks of a tree, each before its subtasks and its later siblings
RECURSIVE tasks_of(_)
tasks_of(list) ==
    IF list = <<>> THEN <<>>
    ELSE <<Head(list)>> \o tasks_of(Head(list).subtasks) \o tasks_of(Tail(list))

RECURSIVE ids_of(_)
ids_of(list) ==
    UNION {{list[i].id} \cup ids_of(list[i].subtasks) : i \in 1..Len(list)}

\* C20: in every store that add, add_subtask, update_at_path, toggle_at_path,
\* move_up, move_down, remove_at_path, toggle_fold and sort lead to, no two
\* tasks have the same id, every task bears the id it was created with (the
\* creation time, here a tick for every created task and written by no
\* method, tells the tasks apart), and a call brings no id into the tree but
\* that of the task it adds.
C20_IdsAreDistinctAndKept ==
    /\ [](LET tasks == tasks_of(todos.todos)
          IN  /\ \A i, j \in 1..Len(tasks) : tasks[i].id = tasks[j].id => i = j
              /\ \A i \in 1..Len(tasks) : tasks[i].id = tasks[i].created_at)
    /\ [][\/ todos'.todos = todos.todos
           \/ ids_of(todos'.todos) \subseteq ids_of(todos.todos) \cup {next_id + 1}]_vars

\* the second of three tasks was removed: the first and its subtask, the
\* third task created, are left with the ids they were given
C20_Witness ==
    /\ ret.op = "remove_at_path"
    /\ Len(todos.todos) = 1
    /\ todos.todos[1].id = 1
    /\ Len(todos.todos[1].subtasks) = 1
    /\ todos.todos[1].subtasks[1].id = 3

-----------------------------------------------------------------------------
(* The claim about the holders of a cluster, checked under TabsSpec.       *)

\* C19: at any time at most one tab holds a TodoList of a given cluster, so
\* that no save takes away from the file of a cluster a task that a holder
\* of that cluster wrote to it before.
C19_OneHolderPerCluster ==
    /\ [](\A i, j \in 1..Len(tabs) :
              i # j /\ tabs[i].todos.cluster_name # ""
                  => tabs[i].todos.cluster_name # tabs[j].todos.cluster_name)
    /\ [][\A c \in DOMAIN disk :
              disk[c] # <<>>
                  => ids_of(disk[c][1].todos) \subseteq ids_of(disk'[c][1].todos)]_vars


-----------------------------------------------------------------------------
(* C21..C30: the modal input handlers of the window.                       *)

\* the step is a key event of a mode other than Normal that resolved to Cancel
CancelledStep ==
    /\ input_mode # Normal
    /\ key_event' # key_event
    /\ key_event'.action = <<"Cancel">>

PrefixedKeyStep ==
    /\ input_mode = Normal
    /\ pending_key # <<>>
    /\ key_event' # key_event

\* the key of the step completes a sequence with the buffered prefix
Completes ==
    get_sequence_action(keybindings, pending_key[1], key_event'.key[1]) # <<>>

\* C22: in Normal mode with a prefix buffered, a key that does not complete a
\* sequence with that prefix leaves the pending buffer empty and has no Action
\* dispatched for that key event
C22_OtherKeyEmptiesTheBufferAndDispatchesNothing ==
    [][PrefixedKeyStep /\ ~Completes =>
          /\ pending_key' = <<>>
          /\ key_event'.action = <<>>]_vars

\* C23: with the default bindings in Normal mode, 'd' after 'd' dispatches
\* Delete, once, and empties the pending buffer; any key after 'd' that does
\* not complete a 'd' sequence empties the pending buffer and dispatches its
\* own direct binding if it has one and nothing else, never Delete
C23_DThenDDeletesAndOtherKeysEmptyTheBuffer ==
    [][PrefixedKeyStep /\ pending_key = <<"d">> =>
          IF key_event'.key[1].name = "d"
          THEN /\ key_event'.action = <<"Delete">>
               /\ pending_key' = <<>>
          ELSE /\ ~Completes
               /\ pending_key' = <<>>
               /\ key_event'.action = get_action(keybindings, key_event'.key[1])
               /\ key_event'.action # <<"Delete">>]_vars

-----------------------------------------------------------------------------
(* C24, C25: the commits of the inline entries, checked under Spec.        *)

\* the task that a commit created, as it stands in the tree after the step
CreatedTask == 
    LET tasks == tasks_of(todos'.todos)
    IN  {tasks[i] : i \in {j \in 1..Len(tasks) : tasks[j].id = next_id + 1}}

\* C24: in Insert mode and in InsertSubtask mode alike, the commit of
\* `/section S` creates a section node (is_section true, priority None, no
\* due date, the name as its text) and no regular task
C24_SectionSigilMakesASectionInBothModes ==
    [][(InsertActivate(LineSection) \/ InsertSubtaskActivate(LineSection)) =>
          /\ CreatedTask # {}
          /\ \A t \in CreatedTask :
                /\ t.is_section
                /\ t.priority = "None"
                /\ t.due_date = <<>>
                /\ t.text = <<"S">>]_vars

\* the lines of which nothing is left: blank, or directives only
EmptyLines == {LineBlank, LineOnlyDirective}

\* C25: an Insert or InsertSubtask commit of a line that is empty after
\* trimming, or empty once the priority and date directives are taken out,
\* creates no task and writes nothing to the data directory; every Insert or
\* InsertSubtask commit leaves the mode Normal
C25_EmptyCommitCreatesNothing ==
    [][\A text \in CommitLines :
          (InsertActivate(text) \/ InsertSubtaskActivate(text)) =>
              /\ input_mode' = Normal
              /\ text \in EmptyLines =>
                    /\ todos' = todos
                    /\ disk' = disk
                    /\ next_id' = next_id]_vars

\* an InsertSubtask commit that created nothing: the one task of the session
\* has no subtask, and the refresh of the commit left no row selected
C25_Witness ==
    /\ next_id = 1
    /\ input_mode = Normal
    /\ inline_entry_row = <<>>
    /\ Len(flat_todos) = 1
    /\ todos.todos[1].subtasks = <<>>
    /\ selected = <<>>

-----------------------------------------------------------------------------
(* C26, C27, C30: the commits of the bottom entry, checked under           *)
(* CommandSpec.                                                            *)

\* the step is the commit of the bottom entry in the given mode
EntryCommitted(kind) == input_mode.kind = kind /\ CommandEntryActivate

\* the step is the commit of one of the given commands
CommandCommitted(cmds) ==
    /\ input_mode.kind = "Command"
    /\ trim(command_entry.text) \in cmds
    /\ CommandEntryActivate

UnknownCommands == {<<":","S","O","R","T">>, <<":","s","o","r","t","x">>}

CmdEdit(c) == CmdEditPrefix \o ClusterText[c]
CmdNew(c) == CmdNewPrefix \o ClusterText[c]

\* the data directory has a file of the cluster
HasBlob(c) == c \in DOMAIN disk /\ disk[c] # <<>>

\* C30: a Command commit of `:e <name>` for a cluster without a file leaves
\* the store of the tab, its cluster name and the whole data directory as
\* they are (no file is made for <name>), shows the notification that the
\* cluster does not exist, and puts the mode back to Normal; `:n <name>`
\* for a cluster that has a file opens it with the tasks of the file, and
\* the file keeps them
C30_EditOfNoClusterAndNewOfAnExistingOne ==
    [][\A c \in DOMAIN ClusterText :
          /\ (~HasBlob(c) /\ CommandCommitted({CmdEdit(c)})) =>
                 /\ todos' = todos
                 /\ disk' = disk
                 /\ notification'.visible
                 /\ notification'.text = <<"Cluster '", c, "' does not exist. Use :n to create.">>
                 /\ input_mode' = Normal
          /\ (HasBlob(c) /\ CommandCommitted({CmdNew(c)})) =>
                 /\ todos'.cluster_name = c
                 /\ todos'.todos = disk[c][1].todos
                 /\ disk' = disk
                 /\ input_mode' = Normal]_vars

\* `:e work` was committed and there is no file of "work": the tab still
\* holds the tasks of "main" and the label tells that the cluster is missing
C30_Witness ==
    /\ key_event.key = <<>>
    /\ key_event # NoKey
    /\ key_event.activated = [mode |-> "Command", text |-> CmdEdit("work")]
    /\ input_mode = Normal
    /\ ~HasBlob("work")
    /\ todos.cluster_name = "main"
    /\ todos.todos # <<>>
    /\ notification.visible

-----------------------------------------------------------------------------
(* C28, C29: the keys of the list, checked under ListSpec.                 *)

\* the step is a key event in Normal mode for which the Action is dispatched
KeyDispatches(action) ==
    /\ input_mode = Normal
    /\ key_event'.action = <<action>>
    /\ \E key \in Keys : KeyPressed(key)

\* C28: in Normal mode, with a row selected, MoveDown and MoveUp change the
\* index of the selected row by exactly +1 and -1 when there is a row in
\* that direction and leave it as it is at the last and at the first row;
\* JumpToFirst selects row 0 and JumpToLast the row count - 1 of the
\* flattened list at hand; none of the four changes the store, the fold
\* set, the file or the mode
C28_MovesAndJumpsOfTheSelection ==
    [][LET count == Len(flat_todos)
       IN  /\ KeyDispatches("MoveDown") /\ selected # <<>> =>
                  selected' = IF selected[1] + 1 < count THEN <<selected[1] + 1>>
                                                         ELSE selected
           /\ KeyDispatches("MoveUp") /\ selected # <<>> =>
                  selected' = IF selected[1] > 0 THEN <<selected[1] - 1>>
                                                 ELSE selected
           /\ KeyDispatches("JumpToFirst") /\ count > 0 => selected' = <<0>>
           /\ KeyDispatches("JumpToLast") /\ count > 0 => selected' = <<count - 1>>
           /\ (\E a \in {"MoveDown", "MoveUp", "JumpToFirst", "JumpToLast"} :
                  KeyDispatches(a)) =>
                  /\ todos' = todos
                  /\ disk' = disk
                  /\ flat_todos' = flat_todos
                  /\ input_mode' = input_mode]_vars

\* MoveDown was dispatched and the last of three rows is selected, under a
\* task that is folded
C28_Witness ==
    /\ key_event.action = <<"MoveDown">>
    /\ input_mode = Normal
    /\ Len(flat_todos) = 3
    /\ selected = <<2>>
    /\ todos.folded_ids # {}

\* C29: after ToggleComplete, MoveTaskUp, MoveTaskDown or ToggleFold on the
\* selected row, a row is selected and it shows the task with the id of the
\* row that was selected before, whatever the tree and the fold set
C29_SelectionFollowsTheTask ==
    [][\A a \in {"ToggleComplete", "MoveTaskUp", "MoveTaskDown", "ToggleFold"} :
          (/\ selected # <<>>
           /\ selected[1] < Len(flat_todos)
           /\ KeyDispatches(a)) =>
              /\ selected' # <<>>
              /\ selected'[1] < Len(flat_todos')
              /\ flat_todos'[selected'[1] + 1].todo.id =
                     flat_todos[selected[1] + 1].todo.id]_vars

\* ToggleComplete was dispatched on the first of three top-level tasks: it
\* is completed, stands last, and its row is the selected one
C29_Witness ==
    /\ key_event.action = <<"ToggleComplete">>
    /\ input_mode = Normal
    /\ Len(todos.todos) = 3
    /\ todos.todos[3].id = 1
    /\ todos.todos[3].completed
    /\ selected # <<>>
    /\ flat_todos[selected[1] + 1].todo.id = 1
    /\ selected[1] > 0

\* C37: an Edit commit of the pre-filled line, left as Action::Edit put it
\* into the entry, leaves the priority, the due date and every other field of
\* the edited task as they were when the mode was entered
C37_UnmodifiedEditKeepsTheTask ==
    [][(/\ input_mode.kind = "Edit"
        /\ get_at_path(todos, input_mode.path) # <<>>
        /\ command_entry.text = get_at_path(todos, input_mode.path)[1].text
        /\ CommandEntryActivate) =>
           get_at_path(todos', input_mode.path) = get_at_path(todos, input_mode.path)]_vars

-----------------------------------------------------------------------------
(* The claims about the sections under sort, checked under SortSpec.       *)

\* the ids of the sections of a sibling list, in the order of the list
section_ids(list) ==
    LET sections == SelectSeq(list, LAMBDA t : t.is_section)
    IN  [i \in 1..Len(sections) |-> sections[i].id]

\* C33: sort puts every section of a sibling list behind every task of the
\* list that is no section, and the sections of the list come out in the
\* order they had before, whatever their completed flags, priorities, due
\* dates and texts.
C33_SortKeepsTheOrderOfTheSections ==
    \A l \in sibling_lists(todos.todos) :
        LET sorted == sort_todos(l)
        IN  /\ \A i, j \in 1..Len(sorted) :
                   sorted[i].is_section /\ ~sorted[j].is_section => j < i
            /\ section_ids(sorted) = section_ids(l)

-----------------------------------------------------------------------------
(* The claims about the tree as a whole, checked under StoreSpec.          *)

\* C32: in every store reached by add, add_subtask, toggle_at_path, move_up,
\* move_down, remove_at_path and sort, no completed task stands before a
\* task of its sibling list that is not completed.
C32_CompletedTasksFormTheTail ==
    \A l \in sibling_lists(todos.todos) :
        \A i, j \in 1..Len(l) : i < j => ~(l[i].completed /\ ~l[j].completed)

\* the tasks of a tree, each with the id of its parent (0 at the top) and
\* its own fields, its subtasks left out
RECURSIVE family(_, _)
family(list, parent) ==
    UNION {{[id |-> list[i].id, parent |-> parent, text |-> list[i].text,
             due_date |-> list[i].due_date, priority |-> list[i].priority,
             completed |-> list[i].completed, created_at |-> list[i].created_at,
             is_section |-> list[i].is_section]}
           \cup family(list[i].subtasks, list[i].id) : i \in 1..Len(list)}

\* the pairs of ids x, y of which x stands before y in a sibling list
order_of(list) ==
    {<<l[i].id, l[j].id>> : <<l, i, j>> \in
        {<<l, i, j>> \in sibling_lists(list) \X (1..MaxTasks) \X (1..MaxTasks) :
            i < j /\ j <= Len(l)}}

\* a family but for the completed flag of one task
but_completed(members, id) ==
    {[m EXCEPT !.completed = (m.id # id /\ @)] : m \in members}

\* the id of the task at a path that leads to one
id_at(path) == get_at_path(todos, path)[1].id

\* C40: on every path that leads to a task, and for sort on every tree,
\* toggle_at_path, move_up, move_down and sort leave in the tree the
\* tasks that were in it, each under the parent it had and with the fields
\* it had (but for the completed flag of the toggled task); remove_at_path
\* takes out the task of the path and the tasks below it and nothing else,
\* and the tasks left keep their parents, their fields and the order in
\* which they stand in their sibling lists.
C40_OnlySiblingListsArePermuted ==
    LET before == family(todos.todos, 0)
    IN  /\ family(sort(todos, disk).self.todos, 0) = before
        /\ \A path \in Resolvable :
               /\ but_completed(family(toggle_at_path(todos, disk, path).self.todos, 0),
                                id_at(path))
                      = but_completed(before, id_at(path))
               /\ family(move_up(todos, disk, path).self.todos, 0) = before
               /\ \A overflow_checks \in BOOLEAN :
                      family(move_down(todos, disk, path, overflow_checks).self.todos, 0)
                          = before
               /\ LET after == remove_at_path(todos, disk, path).self.todos
                      todo  == get_at_path(todos, path)[1]
                      gone  == {todo.id} \cup ids_of(todo.subtasks)
                  IN  /\ family(after, 0) = {m \in before : m.id \notin gone}
                      /\ order_of(after) =
                             {p \in order_of(todos.todos) :
                                  p[1] \notin gone /\ p[2] \notin gone}

\* the first of two tasks, the one with a subtask, was moved down: it is
\* the second now and its subtask is still under it
C40_Witness ==
    /\ ret.op = "move_down"
    /\ ret.value = TRUE
    /\ Len(todos.todos) = 2
    /\ todos.todos[1].id = 2
    /\ todos.todos[2].id = 1
    /\ Len(todos.todos[2].subtasks) = 1
    /\ todos.todos[2].subtasks[1].id = 3

-----------------------------------------------------------------------------
(* The claim about relative offsets, checked under OffsetSpec.             *)

\* the number of days of the offset a line carries, if it carries one
offset_of(line) ==
    LET caps == date_regex_captures(trim(line))
    IN  IF caps = <<>> THEN <<>>
        ELSE parse_relative_days(to_lowercase(trim(caps[1].body)))

\* C36: parse_date never panics, and on a line whose directive is a relative
\* offset of N days, of any sign and size, it returns today + N; on a
\* directive that is no offset and nothing else it returns no date.
C36_ParseDateNeverFaults ==
    /\ \A i \in 1..Len(steps) : steps[i] # "panic"
    /\ date # <<>> =>
           date[1] = IF offset_of(input) = <<>> THEN <<>>
                     ELSE <<today + offset_of(input)[1]>>

-----------------------------------------------------------------------------
(* The claims about the calendar's entry and the cached rows, checked      *)
(* under CalendarSpec.                                                     *)

\* the lines entered in the calendar's entry that leave a text, with the
\* text and the priority they stand for
CalendarEntered ==
    {[line |-> LineBuyMilkPriorityFirst, text |-> <<"B","u","y"," ","m","i","l","k">>,
      priority |-> "High"],
     [line |-> LinePlain, text |-> <<"b">>, priority |-> "None"]}

\* C35: a commit in CalendarInsert mode of a line that leaves a text adds
\* one task at the top level, behind the others: its due date is the date
\* that was selected in the calendar when the mode was entered, whatever
\* date directive the line has (the bracket is cut out of the text), its
\* priority is that of the line's priority directive; the mode is Normal
\* afterwards.
C35_CalendarInsertAddsATaskOfTheSelectedDate ==
    [][/\ (input_mode.kind # "CalendarInsert" /\ input_mode'.kind = "CalendarInsert")
           => <<input_mode'.date>> = get_selected_calendar_date(calendar_state)
       /\ \A e \in CalendarEntered :
              (/\ input_mode.kind = "CalendarInsert"
               /\ command_entry.text = e.line
               /\ CommandEntryActivate)
                  => /\ todos'.todos =
                            Append(todos.todos,
                                   [id |-> next_id + 1, text |-> e.text,
                                    completed |-> FALSE,
                                    due_date |-> <<input_mode.date>>,
                                    created_at |-> next_id + 1, subtasks |-> <<>>,
                                    priority |-> e.priority, is_section |-> FALSE])
                     /\ input_mode' = Normal]_vars

\* `Buy milk [p:high] [date:tomorrow]` was entered with the calendar moved two
\* days on from today: the task is due on the day selected, not tomorrow
C35_Witness ==
    /\ "activated" \in DOMAIN key_event
    /\ key_event.activated = [mode |-> "CalendarInsert", text |-> LineBuyMilkPriorityFirst]
    /\ Len(todos.todos) = 2
    /\ todos.todos[2].text = <<"B","u","y"," ","m","i","l","k">>
    /\ todos.todos[2].due_date = <<BaseDay + 2>>
    /\ todos.todos[2].priority = "High"
    /\ input_mode = Normal

\* C39: after every handler the cached rows of the tab are flatten() of its
\* store: every task with no folded task above it has a row, and the path of
\* every row leads to the task of the row's id.
C39_CachedRowsAreTheFlattenedStore ==
    flat_todos = flatten(todos)

-----------------------------------------------------------------------------
(* The claim about the prefixes of sequences, checked under BindingsSpec.  *)

\* the key is the prefix of a sequence of the configuration
is_prefix(name) == \E b \in custom_config : b.pending = <<name>>

\* the key is bound on its own as well
is_bound(name) == \E b \in custom_config : b.pending = <<>> /\ b.key = name

\* Ctrl+T and Ctrl+W, which the key handler takes before it looks at the
\* bindings
IsTabShortcut(key) == key.ctrl /\ ~key.shift /\ ~key.alt /\ key.name \in {"t", "w"}

\* the key of the step was pressed in Normal mode and list view with nothing
\* buffered, and is a prefix
PrefixPressed ==
    /\ input_mode = Normal
    /\ view_type = "List"
    /\ pending_key = <<>>
    /\ is_prefix(key_event'.key[1].name)

\* the key of the step is buffered, no Action is dispatched for it and the
\* store is as it was
Buffered ==
    /\ pending_key' = <<key_event'.key[1].name>>
    /\ key_event'.action = <<>>
    /\ todos' = todos
    /\ disk' = disk

\* C34 as stated: in Normal mode and list view with nothing buffered, a key
\* that is the prefix of a sequence is buffered and no Action is dispatched,
\* whatever modifiers are held and whether or not the key is bound on its own.
C34_PrefixIsBufferedWhateverTheModifiers ==
    [][PrefixPressed => Buffered]_vars

\* C34: the same, but for Ctrl+T and Ctrl+W (Ctrl alone): these are handled
\* before the bindings are looked at and buffer nothing.
C34_PrefixIsBufferedButForTheTabShortcuts ==
    [][PrefixPressed /\ ~IsTabShortcut(key_event'.key[1]) => Buffered]_vars

\* Ctrl+D was pressed with nothing buffered: `d`, which is bound on its own as
\* well, is buffered and nothing was dispatched
C34_Witness ==
    /\ key_event = [key |-> <<Key("d", FALSE, TRUE, FALSE)>>, action |-> <<>>]
    /\ is_bound("d")
    /\ pending_key = <<"d">>
    /\ input_mode = Normal
    /\ todos.todos = StoredTodos

-----------------------------------------------------------------------------
(* The claims about the window and its pages, checked under WindowSpec.    *)

\* C38: whenever the mode is not Normal, no key is buffered.
C38_NoPendingKeyOutsideNormalMode ==
    input_mode # Normal => pending_key = <<>>

-----------------------------------------------------------------------------
(* C31: the commit of Edit and of InsertSubtask acts on the task selected   *)
(* when the mode was entered.                                               *)

\* a step that leaves Edit mode by the bottom entry and changes the tree
EditCommitted ==
    /\ input_mode.kind = "Edit"
    /\ input_mode' = Normal
    /\ todos'.todos # todos.todos

\* a step by which the inline row of InsertSubtask adds its task: the row is
\* taken, a task was made and the tree of the tab is another
InsertSubtaskCommitted ==
    /\ inline_entry_row # <<>>
    /\ inline_entry_row[1].kind = "InsertSubtask"
    /\ inline_entry_row' = <<>>
    /\ next_id' # next_id
    /\ tabs' = tabs
    /\ todos'.todos # todos.todos

\* C31: whenever the commit of an Edit or of an InsertSubtask changes the
\* store, the task it updates, or the task that receives the new child, is the
\* task whose id was selected when the mode was entered, whatever happened in
\* between, tab opens (Ctrl+T) and tab closes (Ctrl+W) included
C31_CommitActsOnTheTaskSelectedAtEntry ==
    [][/\ EditCommitted =>
            /\ get_at_path(todos, input_mode.path) # <<>>
            /\ get_at_path(todos, input_mode.path)[1].id = input_mode.id
       /\ InsertSubtaskCommitted =>
            /\ get_at_path(todos, inline_entry_row[1].path) # <<>>
            /\ get_at_path(todos, inline_entry_row[1].path)[1].id
                   = inline_entry_row[1].id]_vars
=============================================================================
